---- MODULE Spec2Model ----
(***************************************************************************)
(* Access-control, token and error-translation model of the Florka SaaS    *)
(* backend (Express + Prisma).  Every action is one HTTP request: the      *)
(* route's middleware chain, the controller and, for errors passed to      *)
(* next(), the global error handler.  Persistence is the users, admins     *)
(* and projects tables; tokens are stateless signed claims.                *)
(***************************************************************************)
EXTENDS Integers, Sequences, FiniteSets, TLC

\* ------------------------------------------------------------------ bounds
MaxUsers == 2        \* user accounts ever created (ids are never reused)
MaxProjects == 1     \* projects ever created (ids are never reused)

\* --------------------------------------------------------------- constants
LoginMaxRequests == 3       \* rateLimit(3, ...) on the login routes
AuthMaxRequests == 5        \* rateLimit(5, ...) on the register route
WindowMs == 900000          \* 15 * 60 * 1000
MinPasswordLen == 6         \* registerSchema: password min(6)

Statuses == {"ACTIVE", "INACTIVE", "SUSPENDED", "PENDING_VERIFICATION"}
UserProjectStatuses == {"DRAFT", "PUBLISHED", "ARCHIVED"}
AdminProjectStatuses == {"DRAFT", "PUBLISHED", "ARCHIVED", "UNDER_REVIEW"}
AdminRoles == {"ADMIN", "SUPER_ADMIN"}
Modes == {"development", "production"}

\* ------------------------------------------------------------------ inputs
EmailSeq == <<"a@x.com", "b@x.com", "c@x.com", "d@x.com">>
Emails == {"a@x.com", "b@x.com"}
BadEmail == "not-an-email"
NullTime == 0 - 1
AdminEmail == "admin@florkanewfun.com"
GoodPassword == <<"p", "w", "1", "2", "3", "4", "5", "6">>
ShortPassword == <<"p", "w">>
WrongPassword == <<"n", "o", "t", "i", "t", "!", "!">>
AdminPassword == <<"a", "d", "m", "i", "n", "1", "2", "3", "4", "5", "6">>
ClientIPs == {"10.0.0.1"}

UserId(n) == <<"user", n>>
AdminId(n) == <<"admin", n>>
NoId == <<"none", 0>>
DefaultAdminId == AdminId(1)

VARIABLES
    mode,           \* process.env.NODE_ENV, fixed for the life of the process
    users,          \* prisma.user: id -> row
    admins,         \* prisma.adminUser: id -> row
    projects,       \* prisma.project: id -> row
    nextUserId,     \* number of user rows ever created
    nextProjectId,  \* number of project rows ever created
    adminTokens,    \* signed admin tokens in existence
    requestCounts,  \* the rate limiter's Map: ip -> {count, resetTime}
    now,            \* Date.now()
    req,            \* the request handled last (with the requester resolved)
    resp,           \* the response sent last
    inflight,       \* requests between two awaits: slot -> position and answer
    seen,           \* what each client did: ip -> first request and logins of its window
    loggedOut,      \* what the clients noted: tokens a successful logout was sent with
    client,         \* the browser: localStorage, location and the api call under way
    unpurged        \* what requestCounts would hold had no entry ever been purged

vars == <<mode, users, admins, projects, nextUserId, nextProjectId,
          adminTokens, requestCounts, now, req, resp, inflight, seen, loggedOut, client,
          unpurged>>

db == <<users, admins, projects, nextUserId, nextProjectId>>

\* --------------------------------------------------------- password hashing
\* bcrypt.hash / bcrypt.compare: the stored value is the hash, never the text.
Hash(pw) == <<"$2a$", pw>>
Compare(pw, hashed) == Hash(pw) = hashed

\* ------------------------------------------------------------------ tokens
NoToken == [kind |-> "none", userId |-> NoId, role |-> "-"]
BadToken == [kind |-> "bad", userId |-> NoId, role |-> "-"]
GenerateTokens(userId, role) == [kind |-> "signed", userId |-> userId, role |-> role]

Anonymous == [auth |-> FALSE, userId |-> NoId, role |-> "-"]
ReqUser(userId, role) == [auth |-> TRUE, userId |-> userId, role |-> role]

\* Tokens a client can present: none, a forged or expired one, the token every
\* created user account received at registration, or an issued admin token.
UserTokens == {GenerateTokens(UserId(n), "USER") : n \in 1..nextUserId}
Tokens == {NoToken, BadToken} \cup UserTokens \cup adminTokens

\* ------------------------------------------------------------------ errors
NoError == [name |-> "-", statusCode |-> 0, message |-> "-", isOperational |-> FALSE, code |-> "-"]

\* The controllers' and the auth middleware's own AppError classes: they set
\* statusCode only (isOperational stays undefined).
AppError(message, statusCode) ==
    [name |-> "Error", statusCode |-> statusCode, message |-> message,
     isOperational |-> FALSE, code |-> "-"]

\* errorHandler.ts's exported AppError: isOperational = true.
OperationalError(message, statusCode) ==
    [name |-> "Error", statusCode |-> statusCode, message |-> message,
     isOperational |-> TRUE, code |-> "-"]

PrismaError(code) ==
    [name |-> "PrismaClientKnownRequestError", statusCode |-> 0,
     message |-> "prisma", isOperational |-> FALSE, code |-> code]

HandlePrismaError(error) ==
    CASE error.code = "P2002" -> OperationalError("Duplicate value", 409)
      [] error.code = "P2025" -> OperationalError("Record not found", 404)
      [] error.code = "P2003" -> OperationalError("Related record not found", 400)
      [] error.code = "P2014" -> OperationalError("Invalid relation data", 400)
      [] OTHER -> OperationalError("Database operation failed", 500)

HandleJWTError(error) ==
    IF error.name = "TokenExpiredError"
    THEN OperationalError("Token expired", 401)
    ELSE OperationalError("Invalid token", 401)

\* What reaches the client: status, message and whether internals (stack,
\* prisma code) are in the body.
Reply(status, message, detailed) ==
    [status |-> status, message |-> message, detailed |-> detailed]

SendErrorDev(err) == Reply(err.statusCode, err.message, TRUE)

\* A production reply that forwards whatever error it is given.
SendErrorProdForwards(err) == Reply(err.statusCode, err.message, FALSE)

SendErrorProd(err) ==
    IF err.isOperational
    THEN Reply(err.statusCode, err.message, FALSE)
    ELSE Reply(500, "Something went wrong!", FALSE)

GlobalErrorHandler(e, nodeEnv) ==
    LET err == [e EXCEPT !.statusCode = IF @ = 0 THEN 500 ELSE @] IN
    IF nodeEnv = "development"
    THEN SendErrorDev(err)
    ELSE LET error == IF err.name \in {"JsonWebTokenError", "TokenExpiredError"}
                      THEN HandleJWTError(err)
                      ELSE IF err.name = "PrismaClientKnownRequestError"
                      THEN HandlePrismaError(err)
                      ELSE err
         IN SendErrorProd(error)

\* --------------------------------------------------------- auth middleware
\* A middleware ends in next() (kind "next", req.user possibly set), in a
\* response it sends itself (kind "respond") or in next(error) (kind "error").
MwNext(user) == [kind |-> "next", user |-> user, status |-> 0, err |-> NoError]
MwRespond(status) == [kind |-> "respond", user |-> Anonymous, status |-> status, err |-> NoError]
MwError(err) == [kind |-> "error", user |-> Anonymous, status |-> 0, err |-> err]

NoAccount == [found |-> FALSE, status |-> "-"]
FindAccountUnlessLoggedOut(tok) ==
    IF tok \in loggedOut THEN NoAccount
    ELSE IF tok.role \in AdminRoles
    THEN IF tok.userId \in DOMAIN admins
         THEN [found |-> TRUE, status |-> admins[tok.userId].status]
         ELSE NoAccount
    ELSE IF tok.userId \in DOMAIN users
         THEN [found |-> TRUE, status |-> users[tok.userId].status]
         ELSE NoAccount

FindAccount(tok) ==
    IF tok.role \in AdminRoles
    THEN IF tok.userId \in DOMAIN admins
         THEN [found |-> TRUE, status |-> admins[tok.userId].status]
         ELSE NoAccount
    ELSE IF tok.userId \in DOMAIN users
         THEN [found |-> TRUE, status |-> users[tok.userId].status]
         ELSE NoAccount

StatusAllowedOnlySuspended(status) == status # "SUSPENDED"

StatusAllowed(status) == status = "ACTIVE" \/ status = "PENDING_VERIFICATION"

VerifyToken(tok) ==
    IF tok.kind = "none" THEN MwError(AppError("Access token required", 401))
    ELSE IF tok.kind = "bad" THEN MwRespond(401)
    ELSE LET user == FindAccount(tok) IN
         IF ~user.found THEN MwError(AppError("User no longer exists", 401))
         ELSE IF ~StatusAllowed(user.status)
              THEN MwError(AppError("User account is not active", 403))
              ELSE MwNext(ReqUser(tok.userId, tok.role))

RequireRole(roles, user) ==
    IF ~user.auth \/ user.role \notin roles
    THEN MwError(AppError("Insufficient permissions", 403))
    ELSE MwNext(user)

OptionalAuth(tok) ==
    IF tok.kind = "none" THEN MwNext(Anonymous)
    ELSE IF tok.kind = "bad" THEN MwNext(Anonymous)
    ELSE LET user == FindAccount(tok) IN
         IF user.found /\ StatusAllowed(user.status)
         THEN MwNext(ReqUser(tok.userId, tok.role))
         ELSE MwNext(Anonymous)

\* router.use(verifyToken); router.use(requireRole(['ADMIN', 'SUPER_ADMIN']))
AdminGate(tok) ==
    LET v == VerifyToken(tok) IN
    IF v.kind = "next" THEN RequireRole(AdminRoles, v.user) ELSE v

\* ------------------------------------------------------------- responses
NoAccountInfo == [id |-> NoId, email |-> "-", role |-> "-", status |-> "-"]
\* A response that carries the stored row as it is, password column included.
AccountInfoWholeRow(id, row) ==
    [id |-> id, email |-> row.email, role |-> row.role, status |-> row.status,
     password |-> row.password]

\* The columns a select clause or a hand-built response object keeps (of the
\* columns modelled).
AccountInfo(id, row) == [id |-> id, email |-> row.email, role |-> row.role, status |-> row.status]

\* raised: the statusCode of the error the chain passed to next(), 0 if none.
Ok(status, message, rows, account, tokens) ==
    [status |-> status, message |-> message, detailed |-> FALSE, raised |-> 0,
     projects |-> rows, account |-> account, tokens |-> tokens, limit |-> 0]

\* A response the middleware or the handler sends itself (zod 400, jwt 401, 429).
Direct(status, message) == Ok(status, message, {}, NoAccountInfo, NoToken)

\* next(error): the global error handler answers.
Fail(err) ==
    LET r == GlobalErrorHandler(err, mode) IN
    [status |-> r.status, message |-> r.message, detailed |-> r.detailed,
     raised |-> err.statusCode,
     projects |-> {}, account |-> NoAccountInfo, tokens |-> NoToken, limit |-> 0]

MwReply(mw) == IF mw.kind = "respond" THEN Direct(mw.status, "Invalid token") ELSE Fail(mw.err)

\* ------------------------------------------------------------- projects
NoText == <<>>
TitleAb == <<"A", "b">>
TermAB == <<"a", "B">>
TermC == <<"c">>
DefaultCategory == "OTHER"
MaxTitleLen == 200

NoProject == [id |-> 0, userId |-> NoId, isPublic |-> FALSE, status |-> "-",
              title |-> NoText, category |-> "-"]
Project(id) == [id |-> id, userId |-> projects[id].userId, isPublic |-> projects[id].isPublic,
                status |-> projects[id].status, title |-> projects[id].title,
                category |-> projects[id].category]
FindProject(id) == IF id \in DOMAIN projects THEN Project(id) ELSE NoProject
AllProjects == {Project(id) : id \in DOMAIN projects}

\* { contains: search, mode: 'insensitive' }
Lower(c) == IF c = "A" THEN "a" ELSE IF c = "B" THEN "b" ELSE c
ContainsInsensitive(text, term) ==
    \E i \in 1..(Len(text) - Len(term) + 1) :
        \A j \in 1..Len(term) : Lower(text[i + j - 1]) = Lower(term[j])

\* The where object the list handlers build, and Prisma's reading of it: every
\* key that is set must hold (the keys are ANDed), OR needs one alternative.
EmptyWhere == [isPublic |-> "unset", status |-> "unset", category |-> "unset",
               visibilityOR |-> FALSE, userId |-> NoId, ownerId |-> NoId, search |-> NoText]

Matches(where, p) ==
    /\ where.isPublic = "unset" \/ p.isPublic
    /\ where.status = "unset" \/ p.status = where.status
    /\ where.category = "unset" \/ p.category = where.category
    /\ where.visibilityOR =>
          \/ p.isPublic /\ p.status = "PUBLISHED"
          \/ p.userId = where.userId
    /\ where.ownerId = NoId \/ p.userId = where.ownerId
    /\ where.search = NoText \/ ContainsInsensitive(p.title, where.search)

FindMany(where) == {p \in AllProjects : Matches(where, p)}

\* parseInt(req.query.page) || 1, parseInt(req.query.limit) || 10: a missing,
\* non-numeric or zero parameter (here 0) takes the default.
DefaultPage == 1
DefaultLimit == 10
PageOf(query) == IF query.page = 0 THEN DefaultPage ELSE query.page
LimitOf(query) == IF query.limit = 0 THEN DefaultLimit ELSE query.limit

\* orderBy createdAt desc (ids grow with creation), then skip and take.
Newer(rows, p) == Cardinality({q \in rows : q.id > p.id})
Paginate(rows, query) ==
    LET skip == (PageOf(query) - 1) * LimitOf(query)
        take == LimitOf(query)
    IN {p \in rows : Newer(rows, p) >= skip /\ Newer(rows, p) < skip + take}

\* res.json({projects, pagination: {page, limit, total, pages}}): the page of
\* rows and the page size the handler used and reports.
ListOk(rows, query) ==
    [Ok(200, "ok", Paginate(rows, query), NoAccountInfo, NoToken)
        EXCEPT !.limit = LimitOf(query)]

NoQuery == [search |-> NoText, category |-> "", status |-> "", page |-> 0, limit |-> 0]

GetAllProjectsWhereStatusForAll(user, query) ==
    LET w1 == IF ~user.auth
              THEN [EmptyWhere EXCEPT !.isPublic = "true", !.status = "PUBLISHED"]
              ELSE [EmptyWhere EXCEPT !.visibilityOR = TRUE, !.userId = user.userId]
        w2 == IF query.search # NoText THEN [w1 EXCEPT !.search = query.search] ELSE w1
        w3 == IF query.category # "" THEN [w2 EXCEPT !.category = query.category] ELSE w2
    IN IF query.status # "" THEN [w3 EXCEPT !.status = query.status] ELSE w3

GetAllProjectsWhereStatusOverrides(user, query) ==
    LET w1 == IF ~user.auth
              THEN [EmptyWhere EXCEPT !.isPublic = "true", !.status = "PUBLISHED"]
              ELSE [EmptyWhere EXCEPT !.visibilityOR = TRUE, !.userId = user.userId]
        w2 == IF query.search # NoText THEN [w1 EXCEPT !.search = query.search] ELSE w1
        w3 == IF query.category # "" THEN [w2 EXCEPT !.category = query.category] ELSE w2
    IN IF query.status # "" /\ user.auth
       THEN [w3 EXCEPT !.status = query.status, !.visibilityOR = FALSE]
       ELSE w3

GetAllProjectsWhere(user, query) ==
    LET w1 == IF ~user.auth
              THEN [EmptyWhere EXCEPT !.isPublic = "true", !.status = "PUBLISHED"]
              ELSE [EmptyWhere EXCEPT !.visibilityOR = TRUE, !.userId = user.userId]
        w2 == IF query.search # NoText THEN [w1 EXCEPT !.search = query.search] ELSE w1
        w3 == IF query.category # "" THEN [w2 EXCEPT !.category = query.category] ELSE w2
    IN IF query.status # "" /\ user.auth THEN [w3 EXCEPT !.status = query.status] ELSE w3

GetAllProjectsHandler(user, query) ==
    ListOk(FindMany(GetAllProjectsWhere(user, query)), query)

GetPublicProjectsWhere(query) ==
    LET w1 == [EmptyWhere EXCEPT !.isPublic = "true", !.status = "PUBLISHED"]
        w2 == IF query.search # NoText THEN [w1 EXCEPT !.search = query.search] ELSE w1
    IN IF query.category # "" THEN [w2 EXCEPT !.category = query.category] ELSE w2

GetPublicProjectsHandler(query) ==
    ListOk(FindMany(GetPublicProjectsWhere(query)), query)

GetProjectByIdHandlerNoOwner(user, id) ==
    IF id \notin DOMAIN projects THEN Fail(AppError("Project not found", 404))
    ELSE LET project == Project(id)
             isAdmin == user.auth /\ user.role \in AdminRoles
             isPublicAndPublished == project.isPublic /\ project.status = "PUBLISHED"
         IN IF ~isAdmin /\ ~isPublicAndPublished
            THEN Fail(AppError("Access denied", 403))
            ELSE Ok(200, "ok", {project}, NoAccountInfo, NoToken)

GetProjectByIdHandler(user, id) ==
    IF id \notin DOMAIN projects THEN Fail(AppError("Project not found", 404))
    ELSE LET project == Project(id)
             isOwner == user.auth /\ user.userId = project.userId
             isAdmin == user.auth /\ user.role \in AdminRoles
             isPublicAndPublished == project.isPublic /\ project.status = "PUBLISHED"
         IN IF ~isOwner /\ ~isAdmin /\ ~isPublicAndPublished
            THEN Fail(AppError("Access denied", 403))
            ELSE Ok(200, "ok", {project}, NoAccountInfo, NoToken)

\* zod: createProjectSchema / updateProjectSchema.  A body is the set of keys
\* it has and their values; keys outside the schema are stripped by parse.
NoBody == [has |-> {}, title |-> NoText, isPublic |-> FALSE, status |-> "-",
           category |-> "-", userId |-> NoId, email |-> "-", password |-> NoText]

CreateProjectSchemaValid(body) ==
    /\ "title" \in body.has
    /\ Len(body.title) >= 1 /\ Len(body.title) <= MaxTitleLen
    /\ "status" \in body.has => body.status \in UserProjectStatuses

CreateProjectData(body, userId) ==
    [userId |-> userId,
     title |-> body.title,
     isPublic |-> IF "isPublic" \in body.has THEN body.isPublic ELSE FALSE,
     status |-> IF "status" \in body.has THEN body.status ELSE "DRAFT",
     category |-> IF "category" \in body.has THEN body.category ELSE DefaultCategory]

UpdateProjectSchemaValid(body) ==
    /\ "title" \in body.has => Len(body.title) >= 1 /\ Len(body.title) <= MaxTitleLen
    /\ "status" \in body.has => body.status \in UserProjectStatuses

UpdateProjectDataPassthrough(body, row) ==
    [userId |-> IF "userId" \in body.has THEN body.userId ELSE row.userId,
     title |-> IF "title" \in body.has THEN body.title ELSE row.title,
     isPublic |-> IF "isPublic" \in body.has THEN body.isPublic ELSE row.isPublic,
     status |-> IF "status" \in body.has THEN body.status ELSE row.status,
     category |-> IF "category" \in body.has THEN body.category ELSE row.category]

UpdateProjectData(body, row) ==
    [userId |-> row.userId,
     title |-> IF "title" \in body.has THEN body.title ELSE row.title,
     isPublic |-> IF "isPublic" \in body.has THEN body.isPublic ELSE row.isPublic,
     status |-> IF "status" \in body.has THEN body.status ELSE row.status,
     category |-> IF "category" \in body.has THEN body.category ELSE row.category]

RemoveKey(f, k) == [x \in DOMAIN f \ {k} |-> f[x]]
PutKey(f, k, v) == [x \in DOMAIN f \cup {k} |-> IF x = k THEN v ELSE f[x]]

\* A handler's outcome: the response and the tables it leaves.
Outcome(r, ps, us) == [resp |-> r, projects |-> ps, users |-> us]
ReadOnly(r) == Outcome(r, projects, users)

CreateProjectHandler(user, body) ==
    IF ~CreateProjectSchemaValid(body) THEN ReadOnly(Direct(400, "Validation failed"))
    ELSE LET id == nextProjectId + 1
             row == CreateProjectData(body, user.userId)
         IN Outcome(Ok(201, "Project created successfully",
                       {[id |-> id, userId |-> row.userId, isPublic |-> row.isPublic,
                         status |-> row.status, title |-> row.title, category |-> row.category]},
                       NoAccountInfo, NoToken),
                    PutKey(projects, id, row), users)

UpdateProjectHandler(user, id, body) ==
    IF ~UpdateProjectSchemaValid(body) THEN ReadOnly(Direct(400, "Validation failed"))
    ELSE IF id \notin DOMAIN projects THEN ReadOnly(Fail(AppError("Project not found", 404)))
    ELSE LET existingProject == Project(id)
             isOwner == user.userId = existingProject.userId
             isAdmin == user.role \in AdminRoles
         IN IF ~isOwner /\ ~isAdmin
            THEN ReadOnly(Fail(AppError("Access denied", 403)))
            ELSE LET row == UpdateProjectData(body, projects[id]) IN
                 Outcome(Ok(200, "Project updated successfully",
                            {[id |-> id, userId |-> row.userId, isPublic |-> row.isPublic,
                              status |-> row.status, title |-> row.title, category |-> row.category]},
                            NoAccountInfo, NoToken),
                         PutKey(projects, id, row), users)

DeleteProjectHandler(user, id) ==
    IF id \notin DOMAIN projects THEN ReadOnly(Fail(AppError("Project not found", 404)))
    ELSE LET existingProject == Project(id)
             isOwner == user.userId = existingProject.userId
             isAdmin == user.role \in AdminRoles
         IN IF ~isOwner /\ ~isAdmin
            THEN ReadOnly(Fail(AppError("Access denied", 403)))
            ELSE Outcome(Ok(200, "Project deleted successfully", {}, NoAccountInfo, NoToken),
                         RemoveKey(projects, id), users)

GetProjectsByUserHandler(user, query) ==
    LET w1 == [EmptyWhere EXCEPT !.ownerId = user.userId]
        where == IF query.status # "" THEN [w1 EXCEPT !.status = query.status] ELSE w1
    IN ReadOnly(ListOk(FindMany(where), query))

\* ------------------------------------------------------ admin controller
UpdateUserStatusSchemaValid(body) == body.status \in Statuses
UpdateProjectStatusSchemaValid(body) == body.status \in AdminProjectStatuses

UserInfo(id) == AccountInfo(id, users[id])

GetAdminStatsHandler == ReadOnly(Ok(200, "stats", {}, NoAccountInfo, NoToken))

GetAllUsersHandler(query) == ReadOnly(ListOk({}, query))

GetUserByIdHandler(id) ==
    IF id \notin DOMAIN users THEN ReadOnly(Fail(AppError("User not found", 404)))
    ELSE ReadOnly(Ok(200, "user", {p \in AllProjects : p.userId = id}, UserInfo(id), NoToken))

UpdateUserStatusHandler(id, body) ==
    IF ~UpdateUserStatusSchemaValid(body) THEN ReadOnly(Direct(400, "Validation failed"))
    ELSE IF id \notin DOMAIN users THEN ReadOnly(Fail(AppError("User not found", 404)))
    ELSE LET row == [users[id] EXCEPT !.status = body.status] IN
         Outcome(Ok(200, "User status updated successfully", {}, AccountInfo(id, row), NoToken),
                 projects, PutKey(users, id, row))

\* prisma.user.delete: "Delete user and related data" (the user's projects go too).
DeleteUserHandler(id) ==
    IF id \notin DOMAIN users THEN ReadOnly(Fail(AppError("User not found", 404)))
    ELSE Outcome(Ok(200, "User deleted successfully", {}, NoAccountInfo, NoToken),
                 [x \in {y \in DOMAIN projects : projects[y].userId # id} |-> projects[x]],
                 RemoveKey(users, id))

AdminGetAllProjectsHandler(query) ==
    LET w1 == IF query.search # NoText THEN [EmptyWhere EXCEPT !.search = query.search]
              ELSE EmptyWhere
        where == IF query.status # "" THEN [w1 EXCEPT !.status = query.status] ELSE w1
    IN ReadOnly(ListOk(FindMany(where), query))

UpdateProjectStatusHandler(id, body) ==
    IF ~UpdateProjectStatusSchemaValid(body) THEN ReadOnly(Direct(400, "Validation failed"))
    ELSE IF id \notin DOMAIN projects THEN ReadOnly(Fail(AppError("Project not found", 404)))
    ELSE LET row == [projects[id] EXCEPT !.status = body.status] IN
         Outcome(Ok(200, "Project status updated successfully",
                    {[id |-> id, userId |-> row.userId, isPublic |-> row.isPublic,
                      status |-> row.status, title |-> row.title, category |-> row.category]},
                    NoAccountInfo, NoToken),
                 PutKey(projects, id, row), users)

AdminDeleteProjectHandler(id) ==
    IF id \notin DOMAIN projects THEN ReadOnly(Fail(AppError("Project not found", 404)))
    ELSE Outcome(Ok(200, "Project deleted successfully", {}, NoAccountInfo, NoToken),
                 RemoveKey(projects, id), users)

\* -------------------------------------------------- profile, access, logout
GetProfileHandler(user) ==
    IF ~user.auth THEN ReadOnly(Fail(AppError("User not authenticated", 401)))
    ELSE IF user.userId \notin DOMAIN users THEN ReadOnly(Fail(AppError("User not found", 404)))
    ELSE ReadOnly(Ok(200, "profile", {}, UserInfo(user.userId), NoToken))

GetAdminAccessHandler(user) ==
    IF ~user.auth \/ user.role \notin AdminRoles
    THEN ReadOnly(Fail(AppError("Admin access required", 403)))
    ELSE IF user.userId \notin DOMAIN admins THEN ReadOnly(Fail(AppError("Admin not found", 404)))
    ELSE ReadOnly(Ok(200, "Admin access granted", {},
                     AccountInfo(user.userId, admins[user.userId]), NoToken))

LogoutHandler == ReadOnly(Ok(200, "Logout successful", {}, NoAccountInfo, NoToken))

\* ------------------------------------------------------------- requests
\* The request as the handler sees it, with what the stores held when it came:
\* the status of the token's account and the project row the id names.
Request(op, tok, user) ==
    [op |-> op, tok |-> tok, user |-> user, tokStatus |-> FindAccount(tok).status,
     pid |-> 0, uid |-> NoId, target |-> NoProject, query |-> NoQuery, body |-> NoBody,
     ip |-> "-"]

NoRequest ==
    [op |-> "-", tok |-> NoToken, user |-> Anonymous, tokStatus |-> "-",
     pid |-> 0, uid |-> NoId, target |-> NoProject, query |-> NoQuery, body |-> NoBody,
     ip |-> "-"]
NoResponse == Direct(0, "-")

\* req and resp show one exchange at a time: the client takes the response
\* before the next request is looked at.
Idle == req.op = "-"
Deliver ==
    /\ ~Idle
    /\ req' = NoRequest
    /\ resp' = NoResponse
    /\ UNCHANGED <<mode, unpurged, client, loggedOut, inflight, seen, db, adminTokens, requestCounts, now>>

ProjectIdParams == 1..MaxProjects
UserIdParams == {UserId(n) : n \in 1..MaxUsers}

\* Run the handler when the middleware chain reached it, else the chain answers.
Handle(mw, out) == IF mw.kind = "next" THEN out ELSE ReadOnly(MwReply(mw))

\* GET /projects
GetAllProjects(tok, query) ==
    LET user == OptionalAuth(tok).user IN
    /\ req' = [Request("getAllProjects", tok, user) EXCEPT !.query = query]
    /\ resp' = GetAllProjectsHandler(user, query)
    /\ UNCHANGED <<mode, unpurged, client, loggedOut, inflight, seen, db, adminTokens, requestCounts, now>>

\* GET /projects/public
GetPublicProjects(query) ==
    /\ req' = [Request("getPublicProjects", NoToken, Anonymous) EXCEPT !.query = query]
    /\ resp' = GetPublicProjectsHandler(query)
    /\ UNCHANGED <<mode, unpurged, client, loggedOut, inflight, seen, db, adminTokens, requestCounts, now>>

\* GET /projects/:id
GetProjectById(tok, id) ==
    LET user == OptionalAuth(tok).user IN
    /\ req' = [Request("getProjectById", tok, user) EXCEPT !.pid = id, !.target = FindProject(id)]
    /\ resp' = GetProjectByIdHandler(user, id)
    /\ UNCHANGED <<mode, unpurged, client, loggedOut, inflight, seen, db, adminTokens, requestCounts, now>>

\* GET /projects/public/:id (no auth middleware: req.user is never set)
GetPublicProjectById(id) ==
    /\ req' = [Request("getPublicProjectById", NoToken, Anonymous)
                  EXCEPT !.pid = id, !.target = FindProject(id)]
    /\ resp' = GetProjectByIdHandler(Anonymous, id)
    /\ UNCHANGED <<mode, unpurged, client, loggedOut, inflight, seen, db, adminTokens, requestCounts, now>>

\* POST /projects
CreateProject(tok, body) ==
    LET mw == VerifyToken(tok)
        out == Handle(mw, CreateProjectHandler(mw.user, body))
    IN /\ out.resp.status = 201 => nextProjectId < MaxProjects
       /\ req' = [Request("createProject", tok, mw.user) EXCEPT !.body = body]
       /\ resp' = out.resp
       /\ projects' = out.projects
       /\ nextProjectId' = IF out.resp.status = 201 THEN nextProjectId + 1 ELSE nextProjectId
       /\ UNCHANGED <<mode, unpurged, client, loggedOut, inflight, seen, users, admins, nextUserId, adminTokens, requestCounts, now>>

\* PUT /projects/:id
UpdateProject(tok, id, body) ==
    LET mw == VerifyToken(tok)
        out == Handle(mw, UpdateProjectHandler(mw.user, id, body))
    IN /\ req' = [Request("updateProject", tok, mw.user)
                     EXCEPT !.pid = id, !.target = FindProject(id), !.body = body]
       /\ resp' = out.resp
       /\ projects' = out.projects
       /\ UNCHANGED <<mode, unpurged, client, loggedOut, inflight, seen, users, admins, nextUserId, nextProjectId, adminTokens,
                      requestCounts, now>>

\* DELETE /projects/:id
DeleteProject(tok, id) ==
    LET mw == VerifyToken(tok)
        out == Handle(mw, DeleteProjectHandler(mw.user, id))
    IN /\ req' = [Request("deleteProject", tok, mw.user)
                     EXCEPT !.pid = id, !.target = FindProject(id)]
       /\ resp' = out.resp
       /\ projects' = out.projects
       /\ UNCHANGED <<mode, unpurged, client, loggedOut, inflight, seen, users, admins, nextUserId, nextProjectId, adminTokens,
                      requestCounts, now>>

\* GET /projects/user/my-projects
GetProjectsByUser(tok, query) ==
    LET mw == VerifyToken(tok)
        out == Handle(mw, GetProjectsByUserHandler(mw.user, query))
    IN /\ req' = [Request("getProjectsByUser", tok, mw.user) EXCEPT !.query = query]
       /\ resp' = out.resp
       /\ UNCHANGED <<mode, unpurged, client, loggedOut, inflight, seen, db, adminTokens, requestCounts, now>>

\* GET /auth/profile
GetProfile(tok) ==
    LET mw == VerifyToken(tok)
        out == Handle(mw, GetProfileHandler(mw.user))
    IN /\ req' = Request("getProfile", tok, mw.user)
       /\ resp' = out.resp
       /\ UNCHANGED <<mode, unpurged, client, loggedOut, inflight, seen, db, adminTokens, requestCounts, now>>

\* POST /auth/logout
LogoutStep(tok) ==
    LET mw == VerifyToken(tok)
        out == Handle(mw, LogoutHandler)
    IN /\ req' = Request("logout", tok, mw.user)
       /\ resp' = out.resp
       /\ UNCHANGED <<mode, unpurged, client, inflight, seen, db, adminTokens, requestCounts, now>>

Logout(tok) == LogoutStep(tok) /\ UNCHANGED loggedOut

\* The same request with the client noting which token it logged out.
LogoutNoted(tok) ==
    /\ LogoutStep(tok)
    /\ loggedOut' = IF resp'.status = 200 THEN loggedOut \cup {tok} ELSE loggedOut

\* GET /auth/admin/access
GetAdminAccess(tok) ==
    LET mw == AdminGate(tok)
        out == Handle(mw, GetAdminAccessHandler(mw.user))
    IN /\ req' = Request("getAdminAccess", tok, mw.user)
       /\ resp' = out.resp
       /\ UNCHANGED <<mode, unpurged, client, loggedOut, inflight, seen, db, adminTokens, requestCounts, now>>

\* GET /admin/stats
GetAdminStats(tok) ==
    LET mw == AdminGate(tok)
        out == Handle(mw, GetAdminStatsHandler)
    IN /\ req' = Request("getAdminStats", tok, mw.user)
       /\ resp' = out.resp
       /\ UNCHANGED <<mode, unpurged, client, loggedOut, inflight, seen, db, adminTokens, requestCounts, now>>

\* GET /admin/users
GetAllUsers(tok, query) ==
    LET mw == AdminGate(tok)
        out == Handle(mw, GetAllUsersHandler(query))
    IN /\ req' = [Request("getAllUsers", tok, mw.user) EXCEPT !.query = query]
       /\ resp' = out.resp
       /\ UNCHANGED <<mode, unpurged, client, loggedOut, inflight, seen, db, adminTokens, requestCounts, now>>

\* GET /admin/users/:id
GetUserById(tok, id) ==
    LET mw == AdminGate(tok)
        out == Handle(mw, GetUserByIdHandler(id))
    IN /\ req' = [Request("getUserById", tok, mw.user) EXCEPT !.uid = id]
       /\ resp' = out.resp
       /\ UNCHANGED <<mode, unpurged, client, loggedOut, inflight, seen, db, adminTokens, requestCounts, now>>

\* PATCH /admin/users/:id/status
UpdateUserStatus(tok, id, body) ==
    LET mw == AdminGate(tok)
        out == Handle(mw, UpdateUserStatusHandler(id, body))
    IN /\ req' = [Request("updateUserStatus", tok, mw.user) EXCEPT !.uid = id, !.body = body]
       /\ resp' = out.resp
       /\ users' = out.users
       /\ UNCHANGED <<mode, unpurged, client, loggedOut, inflight, seen, admins, projects, nextUserId, nextProjectId, adminTokens,
                      requestCounts, now>>

\* DELETE /admin/users/:id
DeleteUser(tok, id) ==
    LET mw == AdminGate(tok)
        out == Handle(mw, DeleteUserHandler(id))
    IN /\ req' = [Request("deleteUser", tok, mw.user) EXCEPT !.uid = id]
       /\ resp' = out.resp
       /\ users' = out.users
       /\ projects' = out.projects
       /\ UNCHANGED <<mode, unpurged, client, loggedOut, inflight, seen, admins, nextUserId, nextProjectId, adminTokens, requestCounts, now>>

\* GET /admin/projects
AdminGetAllProjects(tok, query) ==
    LET mw == AdminGate(tok)
        out == Handle(mw, AdminGetAllProjectsHandler(query))
    IN /\ req' = [Request("adminGetAllProjects", tok, mw.user) EXCEPT !.query = query]
       /\ resp' = out.resp
       /\ UNCHANGED <<mode, unpurged, client, loggedOut, inflight, seen, db, adminTokens, requestCounts, now>>

\* PATCH /admin/projects/:id/status
UpdateProjectStatus(tok, id, body) ==
    LET mw == AdminGate(tok)
        out == Handle(mw, UpdateProjectStatusHandler(id, body))
    IN /\ req' = [Request("updateProjectStatus", tok, mw.user)
                     EXCEPT !.pid = id, !.target = FindProject(id), !.body = body]
       /\ resp' = out.resp
       /\ projects' = out.projects
       /\ UNCHANGED <<mode, unpurged, client, loggedOut, inflight, seen, users, admins, nextUserId, nextProjectId, adminTokens,
                      requestCounts, now>>

\* DELETE /admin/projects/:id
AdminDeleteProject(tok, id) ==
    LET mw == AdminGate(tok)
        out == Handle(mw, AdminDeleteProjectHandler(id))
    IN /\ req' = [Request("adminDeleteProject", tok, mw.user)
                     EXCEPT !.pid = id, !.target = FindProject(id)]
       /\ resp' = out.resp
       /\ projects' = out.projects
       /\ UNCHANGED <<mode, unpurged, client, loggedOut, inflight, seen, users, admins, nextUserId, nextProjectId, adminTokens,
                      requestCounts, now>>

\* The admin_users.status column: no route writes it, the operator of the
\* database does (verifyToken and adminLogin both read it).
SetAdminStatus(id, status) ==
    /\ id \in DOMAIN admins
    /\ admins[id].status # status
    /\ admins' = [admins EXCEPT ![id].status = status]
    /\ UNCHANGED <<mode, unpurged, client, loggedOut, inflight, seen, users, projects, nextUserId, nextProjectId, adminTokens,
                   requestCounts, now, req, resp>>

\* ------------------------------------------------------------------ inputs
Queries ==
    { NoQuery,
      [NoQuery EXCEPT !.search = TermAB],
      [NoQuery EXCEPT !.search = TermC],
      [NoQuery EXCEPT !.category = "defi"],
      [NoQuery EXCEPT !.status = "DRAFT"],
      [NoQuery EXCEPT !.status = "PUBLISHED"],
      [NoQuery EXCEPT !.search = TermAB, !.category = DefaultCategory, !.status = "ARCHIVED"],
      [NoQuery EXCEPT !.page = 2, !.limit = 1] }

CreateBodies ==
    { [NoBody EXCEPT !.has = {"title"}, !.title = TitleAb],
      [NoBody EXCEPT !.has = {"title", "isPublic", "status"}, !.title = TitleAb,
                     !.isPublic = TRUE, !.status = "PUBLISHED"],
      [NoBody EXCEPT !.has = {"title", "isPublic"}, !.title = TitleAb, !.isPublic = TRUE],
      [NoBody EXCEPT !.has = {"title", "status", "userId"}, !.title = TitleAb,
                     !.status = "PUBLISHED", !.userId = UserId(1)],
      [NoBody EXCEPT !.has = {"isPublic"}, !.isPublic = TRUE],
      [NoBody EXCEPT !.has = {"title", "status"}, !.title = TitleAb, !.status = "UNDER_REVIEW"] }

UpdateBodies ==
    { [NoBody EXCEPT !.has = {"isPublic"}, !.isPublic = TRUE],
      [NoBody EXCEPT !.has = {"isPublic"}, !.isPublic = FALSE],
      [NoBody EXCEPT !.has = {"status"}, !.status = "PUBLISHED"],
      [NoBody EXCEPT !.has = {"status"}, !.status = "ARCHIVED"],
      [NoBody EXCEPT !.has = {"status", "userId"}, !.status = "DRAFT", !.userId = UserId(2)],
      [NoBody EXCEPT !.has = {"title"}, !.title = NoText],
      [NoBody EXCEPT !.has = {"status"}, !.status = "UNDER_REVIEW"] }

UserStatusBodies == {[NoBody EXCEPT !.has = {"status"}, !.status = s] : s \in Statuses \cup {"BANNED"}}
ProjectStatusBodies ==
    {[NoBody EXCEPT !.has = {"status"}, !.status = s] : s \in AdminProjectStatuses \cup {"DELETED"}}

\* The browser before it called the api: nothing stored, no call under way.
\* call: position of the api call; retry: originalRequest._retry; sends and
\* refreshes count the requests of this call that went out.
NoClient ==
    [token |-> NoToken, refreshToken |-> FALSE, location |-> "/", call |-> "idle",
     retry |-> FALSE, status |-> 0, sends |-> 0, refreshes |-> 0, refreshed |-> FALSE,
     outcome |-> "-"]

\* Requests whose handler is suspended at an await; Spec, SpecGate and SpecAuth
\* run every handler to its end in one step and keep the slots empty.
MaxInflight == 2
Slots == 1..MaxInflight
NoSlot == [pc |-> "idle", op |-> "-", body |-> NoBody, pid |-> 0, uid |-> NoId,
           user |-> Anonymous, resp |-> NoResponse, resolvedAt |-> 0, wroteAt |-> 0]
NoneInFlight == [k \in Slots |-> NoSlot]

\* --------------------------------------------------------- the access model
\* A server started on a database that already holds MaxUsers registered
\* accounts and a logged-in default admin; no project yet.
RegisteredUser(n) ==
    [email |-> EmailSeq[n], password |-> Hash(GoodPassword), role |-> "USER",
     status |-> "PENDING_VERIFICATION", lastLogin |-> NullTime]

DefaultAdmin ==
    [email |-> AdminEmail, password |-> Hash(AdminPassword), role |-> "SUPER_ADMIN",
     status |-> "ACTIVE", lastLogin |-> NullTime]

\* SpecAuth reaches these accounts by registering and logging in; the limiter
\* and the clock play no part in the routes of Spec and SpecGate.
Init ==
    /\ mode \in Modes
    /\ users = [id \in UserIdParams |-> RegisteredUser(id[2])]
    /\ admins = [id \in {DefaultAdminId} |-> [DefaultAdmin EXCEPT !.lastLogin = 0]]
    /\ projects = [id \in {} |-> NoProject]
    /\ nextUserId = MaxUsers
    /\ nextProjectId = 0
    /\ adminTokens = {GenerateTokens(DefaultAdminId, "SUPER_ADMIN")}
    /\ requestCounts = [ip \in {} |-> [count |-> 0, resetTime |-> 0]]
    /\ now = 0
    /\ req = NoRequest
    /\ resp = NoResponse
    /\ inflight = NoneInFlight
    /\ seen = [ip \in {} |-> [first |-> 0, logins |-> 0, registers |-> 0]]
    /\ loggedOut = {}
    /\ client = NoClient
    /\ unpurged = requestCounts

\* Accounts whose status an admin changes or deletes in this model.
ManagedUsers == {UserId(1)}
ListQueries == {NoQuery, [NoQuery EXCEPT !.status = "DRAFT"]}

\* Project access: every project input, the admin account stays ACTIVE.
Next ==
    \/ Idle /\ \E tok \in Tokens, query \in Queries : GetAllProjects(tok, query)
    \/ Idle /\ \E query \in Queries : GetPublicProjects(query)
    \/ Idle /\ \E tok \in Tokens, id \in ProjectIdParams : GetProjectById(tok, id)
    \/ Idle /\ \E id \in ProjectIdParams : GetPublicProjectById(id)
    \/ Idle /\ \E tok \in Tokens, body \in CreateBodies : CreateProject(tok, body)
    \/ Idle /\ \E tok \in Tokens, id \in ProjectIdParams, body \in UpdateBodies :
                  UpdateProject(tok, id, body)
    \/ Idle /\ \E tok \in Tokens, id \in ProjectIdParams : DeleteProject(tok, id)
    \/ Idle /\ \E tok \in Tokens, query \in ListQueries : GetProjectsByUser(tok, query)
    \/ Idle /\ \E tok \in Tokens, id \in ManagedUsers, body \in UserStatusBodies :
                  UpdateUserStatus(tok, id, body)
    \/ Idle /\ \E tok \in Tokens, id \in ManagedUsers : DeleteUser(tok, id)
    \/ Idle /\ \E tok \in Tokens, query \in ListQueries : AdminGetAllProjects(tok, query)
    \/ Idle /\ \E tok \in Tokens, id \in ProjectIdParams, body \in ProjectStatusBodies :
                  UpdateProjectStatus(tok, id, body)
    \/ Idle /\ \E tok \in Tokens, id \in ProjectIdParams : AdminDeleteProject(tok, id)
    \/ Deliver

Spec == Init /\ [][Next]_vars

\* Token and role gates: every token-required route, every account status
\* (the admin's too), one project body of each kind.
GateCreateBodies == {[NoBody EXCEPT !.has = {"title"}, !.title = TitleAb]}
GateUpdateBodies == {[NoBody EXCEPT !.has = {"isPublic", "status"}, !.isPublic = TRUE,
                                    !.status = "PUBLISHED"]}
GateStatusBodies == {[NoBody EXCEPT !.has = {"status"}, !.status = "UNDER_REVIEW"]}

NextGate ==
    \/ Idle /\ \E tok \in Tokens : GetAllProjects(tok, NoQuery)
    \/ Idle /\ \E tok \in Tokens, id \in ProjectIdParams : GetProjectById(tok, id)
    \/ Idle /\ \E tok \in Tokens, body \in GateCreateBodies : CreateProject(tok, body)
    \/ Idle /\ \E tok \in Tokens, id \in ProjectIdParams, body \in GateUpdateBodies :
                  UpdateProject(tok, id, body)
    \/ Idle /\ \E tok \in Tokens, id \in ProjectIdParams : DeleteProject(tok, id)
    \/ Idle /\ \E tok \in Tokens : GetProjectsByUser(tok, NoQuery)
    \/ Idle /\ \E tok \in Tokens : GetProfile(tok)
    \/ Idle /\ \E tok \in Tokens : Logout(tok)
    \/ Idle /\ \E tok \in Tokens : GetAdminAccess(tok)
    \/ Idle /\ \E tok \in Tokens : GetAdminStats(tok)
    \/ Idle /\ \E tok \in Tokens : GetAllUsers(tok, NoQuery)
    \/ Idle /\ \E tok \in Tokens, id \in ManagedUsers : GetUserById(tok, id)
    \/ Idle /\ \E tok \in Tokens, id \in ManagedUsers, body \in UserStatusBodies :
                  UpdateUserStatus(tok, id, body)
    \/ Idle /\ \E tok \in Tokens, id \in ManagedUsers : DeleteUser(tok, id)
    \/ Idle /\ \E tok \in Tokens : AdminGetAllProjects(tok, NoQuery)
    \/ Idle /\ \E tok \in Tokens, id \in ProjectIdParams, body \in GateStatusBodies :
                  UpdateProjectStatus(tok, id, body)
    \/ Idle /\ \E tok \in Tokens, id \in ProjectIdParams : AdminDeleteProject(tok, id)
    \/ Idle /\ \E status \in Statuses : SetAdminStatus(DefaultAdminId, status)
    \/ Deliver

SpecGate == Init /\ [][NextGate]_vars

\* ------------------------------------------------------------ rate limiter
\* rateLimit(maxRequests, windowMs): one Map for every limiter, keyed by IP.
RateLimitAdmitsOneMore(maxRequests, ip) ==
    \/ ip \notin DOMAIN requestCounts
    \/ now > requestCounts[ip].resetTime
    \/ requestCounts[ip].count <= maxRequests

\* The limiter's decision and its bookkeeping on a given map of counters.
AdmitsOn(counts, maxRequests, ip) ==
    \/ ip \notin DOMAIN counts
    \/ now > counts[ip].resetTime
    \/ counts[ip].count < maxRequests

CountsOn(counts, maxRequests, ip) ==
    IF ip \notin DOMAIN counts \/ now > counts[ip].resetTime
    THEN PutKey(counts, ip, [count |-> 1, resetTime |-> now + WindowMs])
    ELSE IF counts[ip].count >= maxRequests
         THEN counts
         ELSE PutKey(counts, ip, [counts[ip] EXCEPT !.count = @ + 1])

RateLimitAdmits(maxRequests, ip) == AdmitsOn(requestCounts, maxRequests, ip)

RateLimitCountsSliding(maxRequests, ip) ==
    IF ip \notin DOMAIN requestCounts \/ now > requestCounts[ip].resetTime
    THEN PutKey(requestCounts, ip, [count |-> 1, resetTime |-> now + WindowMs])
    ELSE IF requestCounts[ip].count >= maxRequests
         THEN requestCounts
         ELSE PutKey(requestCounts, ip, [count |-> requestCounts[ip].count + 1,
                                         resetTime |-> now + WindowMs])

RateLimitCounts(maxRequests, ip) == CountsOn(requestCounts, maxRequests, ip)

\* The clients' side of the limiter: a client's window opens with its first
\* request and with the first one that comes more than WindowMs after the
\* opening of the window before; logins and registers count the login and
\* the register attempts in it.
NewWindow(ip) == ip \notin DOMAIN seen \/ now > seen[ip].first + WindowMs
Observe(ip, isLogin) ==
    IF NewWindow(ip)
    THEN PutKey(seen, ip, [first |-> now, logins |-> IF isLogin THEN 1 ELSE 0,
                           registers |-> IF isLogin THEN 0 ELSE 1])
    ELSE IF isLogin /\ seen[ip].logins <= LoginMaxRequests
         THEN PutKey(seen, ip, [seen[ip] EXCEPT !.logins = @ + 1])
         ELSE IF ~isLogin /\ seen[ip].registers <= AuthMaxRequests
         THEN PutKey(seen, ip, [seen[ip] EXCEPT !.registers = @ + 1])
         ELSE seen

TooManyRequests == Direct(429, "Too many requests, please try again later")

\* A purge that drops every entry, expired or not.
CleanupEveryEntry ==
    /\ \E ip \in DOMAIN requestCounts : now > requestCounts[ip].resetTime
    /\ requestCounts' = [ip \in {} |-> requestCounts[ip]]
    /\ UNCHANGED <<mode, unpurged, client, loggedOut, inflight, seen, db, adminTokens, now, req, resp>>

\* setInterval(..., 60000): drop the entries whose window is over.
Cleanup ==
    /\ \E ip \in DOMAIN requestCounts : now > requestCounts[ip].resetTime
    /\ requestCounts' = [ip \in {i \in DOMAIN requestCounts : ~(now > requestCounts[i].resetTime)}
                            |-> requestCounts[ip]]
    /\ UNCHANGED <<mode, unpurged, client, loggedOut, inflight, seen, db, adminTokens, now, req, resp>>

\* The clock, in steps of half a window.
MaxTicks == 3
Tick ==
    /\ now < MaxTicks * (WindowMs \div 2)
    /\ now' = now + (WindowMs \div 2)
    /\ UNCHANGED <<mode, unpurged, client, loggedOut, inflight, seen, db, adminTokens, requestCounts, req, resp>>

\* --------------------------------------------------------- auth controller
\* zod: registerSchema / loginSchema / adminLoginSchema
RegisterSchemaValid(body) == body.email # BadEmail /\ Len(body.password) >= MinPasswordLen
LoginSchemaValid(body) == body.email # BadEmail /\ Len(body.password) >= 1

UserByEmail(email) == {id \in DOMAIN users : users[id].email = email}
AdminByEmail(email) == {id \in DOMAIN admins : admins[id].email = email}

\* POST /auth/register
RegisterStep(ip, body) ==
    LET admitted == RateLimitAdmits(AuthMaxRequests, ip)
        valid == RegisterSchemaValid(body)
        existingUser == UserByEmail(body.email)
        id == UserId(nextUserId + 1)
        row == [email |-> body.email, password |-> Hash(body.password), role |-> "USER",
                status |-> "PENDING_VERIFICATION", lastLogin |-> NullTime]
        creates == admitted /\ valid /\ existingUser = {}
    IN /\ creates => nextUserId < MaxUsers
       /\ req' = [Request("register", NoToken, Anonymous) EXCEPT !.body = body, !.ip = ip,
                     !.uid = IF existingUser = {} THEN NoId ELSE CHOOSE u \in existingUser : TRUE]
       /\ requestCounts' = RateLimitCounts(AuthMaxRequests, ip)
       /\ seen' = Observe(ip, FALSE)
       /\ resp' = IF ~admitted THEN TooManyRequests
                  ELSE IF ~valid THEN Direct(400, "Validation failed")
                  ELSE IF existingUser # {}
                       THEN Fail(AppError("User already exists with this email", 409))
                       ELSE Ok(201, "User registered successfully", {}, AccountInfo(id, row),
                               GenerateTokens(id, row.role))
       /\ users' = IF creates THEN PutKey(users, id, row) ELSE users
       /\ nextUserId' = IF creates THEN nextUserId + 1 ELSE nextUserId
       /\ UNCHANGED <<mode, client, loggedOut, inflight, admins, projects, nextProjectId,
                      adminTokens, now>>

Register(ip, body) == RegisterStep(ip, body) /\ UNCHANGED unpurged

\* The same request, and what a limiter whose map is never purged would count.
RegisterCounted(ip, body) ==
    RegisterStep(ip, body) /\ unpurged' = CountsOn(unpurged, AuthMaxRequests, ip)

\* POST /auth/login
LoginStep(ip, body) ==
    LET admitted == RateLimitAdmits(LoginMaxRequests, ip)
        valid == LoginSchemaValid(body)
        found == UserByEmail(body.email)
        id == CHOOSE u \in found : TRUE
        user == users[id]
        succeeds == /\ admitted /\ valid /\ found # {}
                    /\ Compare(body.password, user.password)
                    /\ ~(user.status = "SUSPENDED" \/ user.status = "INACTIVE")
    IN /\ req' = [Request("login", NoToken, Anonymous) EXCEPT !.body = body, !.ip = ip,
                     !.uid = IF found = {} THEN NoId ELSE id]
       /\ requestCounts' = RateLimitCounts(LoginMaxRequests, ip)
       /\ seen' = Observe(ip, TRUE)
       /\ resp' = IF ~admitted THEN TooManyRequests
                  ELSE IF ~valid THEN Direct(400, "Validation failed")
                  ELSE IF found = {} THEN Fail(AppError("Invalid credentials", 401))
                  ELSE IF ~Compare(body.password, user.password)
                       THEN Fail(AppError("Invalid credentials", 401))
                  ELSE IF user.status = "SUSPENDED" \/ user.status = "INACTIVE"
                       THEN Fail(AppError("Account is suspended or inactive", 403))
                  ELSE Ok(200, "Login successful", {}, AccountInfo(id, user),
                          GenerateTokens(id, user.role))
       /\ users' = IF succeeds THEN PutKey(users, id, [user EXCEPT !.lastLogin = now]) ELSE users
       /\ UNCHANGED <<mode, client, loggedOut, inflight, admins, projects, nextUserId,
                      nextProjectId, adminTokens, now>>

Login(ip, body) == LoginStep(ip, body) /\ UNCHANGED unpurged

LoginCounted(ip, body) ==
    LoginStep(ip, body) /\ unpurged' = CountsOn(unpurged, LoginMaxRequests, ip)

\* POST /auth/admin/login
AdminLogin(ip, body) ==
    LET admitted == RateLimitAdmits(LoginMaxRequests, ip)
        valid == LoginSchemaValid(body)
        found == AdminByEmail(body.email)
        id == CHOOSE a \in found : TRUE
        admin == admins[id]
        succeeds == /\ admitted /\ valid /\ found # {}
                    /\ Compare(body.password, admin.password)
                    /\ admin.status = "ACTIVE"
    IN /\ req' = [Request("adminLogin", NoToken, Anonymous) EXCEPT !.body = body, !.ip = ip,
                     !.uid = IF found = {} THEN NoId ELSE id]
       /\ requestCounts' = RateLimitCounts(LoginMaxRequests, ip)
       /\ seen' = Observe(ip, TRUE)
       /\ resp' = IF ~admitted THEN TooManyRequests
                  ELSE IF ~valid THEN Direct(400, "Validation failed")
                  ELSE IF found = {} THEN Fail(AppError("Invalid admin credentials", 401))
                  ELSE IF ~Compare(body.password, admin.password)
                       THEN Fail(AppError("Invalid admin credentials", 401))
                  ELSE IF admin.status # "ACTIVE"
                       THEN Fail(AppError("Admin account is not active", 403))
                  ELSE Ok(200, "Admin login successful", {}, AccountInfo(id, admin),
                          GenerateTokens(id, admin.role))
       /\ admins' = IF succeeds THEN PutKey(admins, id, [admin EXCEPT !.lastLogin = now])
                    ELSE admins
       /\ adminTokens' = IF succeeds THEN adminTokens \cup {GenerateTokens(id, admin.role)}
                         ELSE adminTokens
       /\ UNCHANGED <<mode, unpurged, client, loggedOut, inflight, users, projects, nextUserId, nextProjectId, now>>

Credentials(emails, passwords) ==
    {[NoBody EXCEPT !.has = {"email", "password"}, !.email = e, !.password = pw] :
        e \in emails, pw \in passwords}

RegisterBodies == Credentials(Emails \cup {BadEmail}, {GoodPassword, ShortPassword})
LoginBodies == Credentials(Emails, {GoodPassword, WrongPassword})
AdminLoginBodies == Credentials({AdminEmail, "a@x.com"}, {AdminPassword, WrongPassword})

\* Accounts: a server started on an empty users table and the default admin
\* (createDefaultAdmin).
InitAuth ==
    /\ mode \in Modes
    /\ users = [id \in {} |-> RegisteredUser(1)]
    /\ admins = [id \in {DefaultAdminId} |-> DefaultAdmin]
    /\ projects = [id \in {} |-> NoProject]
    /\ nextUserId = 0
    /\ nextProjectId = 0
    /\ adminTokens = {}
    /\ requestCounts = [ip \in {} |-> [count |-> 0, resetTime |-> 0]]
    /\ now = 0
    /\ req = NoRequest
    /\ resp = NoResponse
    /\ inflight = NoneInFlight
    /\ seen = [ip \in {} |-> [first |-> 0, logins |-> 0, registers |-> 0]]
    /\ loggedOut = {}
    /\ client = NoClient
    /\ unpurged = requestCounts

NextAuth ==
    \/ Idle /\ \E ip \in ClientIPs, body \in RegisterBodies : Register(ip, body)
    \/ Idle /\ \E ip \in ClientIPs, body \in LoginBodies : Login(ip, body)
    \/ Idle /\ \E ip \in ClientIPs, body \in AdminLoginBodies : AdminLogin(ip, body)
    \/ Idle /\ Tick
    \/ Idle /\ Cleanup
    \/ Deliver

SpecAuth == InitAuth /\ [][NextAuth]_vars

\* ------------------------------------------------------------ the lists
\* The five list routes with page and limit parameters as clients may send
\* them (0: parameter absent, not a number, or zero).
PageQueries ==
    {[NoQuery EXCEPT !.page = pg, !.limit = lim] : pg \in {0, 1, 2}, lim \in {0, 1, 2, 100, 101}}

NextPage ==
    \/ Idle /\ \E tok \in Tokens, body \in CreateBodies : CreateProject(tok, body)
    \/ Idle /\ \E tok \in Tokens, query \in PageQueries : GetAllProjects(tok, query)
    \/ Idle /\ \E query \in PageQueries : GetPublicProjects(query)
    \/ Idle /\ \E tok \in Tokens, query \in PageQueries : GetProjectsByUser(tok, query)
    \/ Idle /\ \E tok \in Tokens, query \in PageQueries : GetAllUsers(tok, query)
    \/ Idle /\ \E tok \in Tokens, query \in PageQueries : AdminGetAllProjects(tok, query)
    \/ Deliver

SpecPage == Init /\ [][NextPage]_vars

\* ---------------------------------------------------------- the sessions
\* The token-required routes, with the clients keeping track of their logouts.
SessionUpdateBodies == {[NoBody EXCEPT !.has = {"title"}, !.title = TitleAb]}
SessionStatusBodies ==
    {[NoBody EXCEPT !.has = {"status"}, !.status = st] : st \in {"ACTIVE", "SUSPENDED"}}

NextSession ==
    \/ Idle /\ \E tok \in Tokens : LogoutNoted(tok)
    \/ Idle /\ \E tok \in Tokens, body \in GateCreateBodies : CreateProject(tok, body)
    \/ Idle /\ \E tok \in Tokens, id \in ProjectIdParams, body \in SessionUpdateBodies :
                  UpdateProject(tok, id, body)
    \/ Idle /\ \E tok \in Tokens, id \in ProjectIdParams : DeleteProject(tok, id)
    \/ Idle /\ \E tok \in Tokens : GetProjectsByUser(tok, NoQuery)
    \/ Idle /\ \E tok \in Tokens : GetProfile(tok)
    \/ Idle /\ \E tok \in Tokens : GetAdminAccess(tok)
    \/ Idle /\ \E tok \in Tokens : GetAdminStats(tok)
    \/ Idle /\ \E tok \in Tokens : GetAllUsers(tok, NoQuery)
    \/ Idle /\ \E tok \in Tokens, id \in ManagedUsers : GetUserById(tok, id)
    \/ Idle /\ \E tok \in Tokens, id \in ManagedUsers, body \in SessionStatusBodies :
                  UpdateUserStatus(tok, id, body)
    \/ Idle /\ \E tok \in Tokens, id \in ManagedUsers : DeleteUser(tok, id)
    \/ Idle /\ \E tok \in Tokens : AdminGetAllProjects(tok, NoQuery)
    \/ Idle /\ \E tok \in Tokens, id \in ProjectIdParams, body \in GateStatusBodies :
                  UpdateProjectStatus(tok, id, body)
    \/ Idle /\ \E tok \in Tokens, id \in ProjectIdParams : AdminDeleteProject(tok, id)
    \/ Deliver

SpecSession == Init /\ [][NextSession]_vars

\* ------------------------------------------------------------ the logins
\* Registered accounts log in while an admin changes the status of one.
NextLogin ==
    \/ Idle /\ \E ip \in ClientIPs, body \in LoginBodies : Login(ip, body)
    \/ Idle /\ \E tok \in adminTokens, body \in UserStatusBodies :
                  UpdateUserStatus(tok, UserId(1), body)
    \/ Idle /\ Tick
    \/ Deliver

SpecLogin == Init /\ [][NextLogin]_vars

\* ------------------------------------------- register, await by await
\* register suspends at prisma.user.findUnique, bcrypt.hash and
\* prisma.user.create; other requests run in between. The users table has a
\* unique index on email: a create that meets the email fails with P2002.
Answered(slot, r) == [slot EXCEPT !.pc = "done", !.resp = r]

\* rateLimit, registerSchema.parse and the existence check.
RegisterCheck(k, ip, body) ==
    LET admitted == RateLimitAdmits(AuthMaxRequests, ip)
        valid == RegisterSchemaValid(body)
        existingUser == UserByEmail(body.email)
        slot == [NoSlot EXCEPT !.op = "register", !.body = body]
        creating == Cardinality({j \in Slots : inflight[j].pc = "create"})
    IN /\ inflight[k].pc = "idle"
       /\ nextUserId + creating < MaxUsers
       /\ requestCounts' = RateLimitCounts(AuthMaxRequests, ip)
       /\ seen' = Observe(ip, FALSE)
       /\ inflight' = [inflight EXCEPT ![k] =
              IF ~admitted THEN Answered(slot, TooManyRequests)
              ELSE IF ~valid THEN Answered(slot, Direct(400, "Validation failed"))
              ELSE IF existingUser # {}
                   THEN Answered(slot, Fail(AppError("User already exists with this email", 409)))
                   ELSE [slot EXCEPT !.pc = "create"]]
       /\ UNCHANGED <<mode, unpurged, client, loggedOut, db, adminTokens, now, req, resp>>

\* prisma.user.create and the 201 response, or the error it throws.
RegisterCreate(k) ==
    LET body == inflight[k].body
        id == UserId(nextUserId + 1)
        row == [email |-> body.email, password |-> Hash(body.password), role |-> "USER",
                status |-> "PENDING_VERIFICATION", lastLogin |-> NullTime]
        unique == UserByEmail(body.email) = {}
    IN /\ inflight[k].pc = "create"
       /\ users' = IF unique THEN PutKey(users, id, row) ELSE users
       /\ nextUserId' = IF unique THEN nextUserId + 1 ELSE nextUserId
       /\ inflight' = [inflight EXCEPT ![k] = Answered(@,
              IF unique
              THEN Ok(201, "User registered successfully", {}, AccountInfo(id, row),
                      GenerateTokens(id, row.role))
              ELSE Fail(PrismaError("P2002")))]
       /\ UNCHANGED <<mode, unpurged, client, loggedOut, admins, projects, nextProjectId, adminTokens, requestCounts,
                      now, req, resp, seen>>

\* The clients take their answers; the slots are free again.
Collect ==
    /\ \E k \in Slots : inflight[k].pc = "done"
    /\ \A k \in Slots : inflight[k].pc \in {"idle", "done"}
    /\ inflight' = NoneInFlight
    /\ UNCHANGED <<mode, unpurged, client, loggedOut, db, adminTokens, requestCounts, now, req, resp, seen>>

RaceBodies == Credentials(Emails, {GoodPassword}) \cup Credentials({BadEmail}, {GoodPassword})

NextRace ==
    \/ \E k \in Slots, ip \in ClientIPs, body \in RaceBodies : RegisterCheck(k, ip, body)
    \/ \E k \in Slots : RegisterCreate(k)
    \/ Collect

SpecRace == InitAuth /\ [][NextRace]_vars

\* ------------------------------------------------------------ the purge
\* Registrations of one client and logins of another while the clock runs
\* and the purge fires, next to a limiter that is never purged.
RegisteringIPs == {"10.0.0.1"}
LoggingInIPs == {"10.0.0.2"}
PurgeIPs == RegisteringIPs \cup LoggingInIPs
PurgeRegisterBodies == Credentials({"a@x.com"}, {GoodPassword})
PurgeLoginBodies == Credentials({"a@x.com"}, {GoodPassword, WrongPassword})

NextPurge ==
    \/ Idle /\ \E ip \in RegisteringIPs, body \in PurgeRegisterBodies : RegisterCounted(ip, body)
    \/ Idle /\ \E ip \in LoggingInIPs, body \in PurgeLoginBodies : LoginCounted(ip, body)
    \/ Idle /\ Tick
    \/ Idle /\ Cleanup
    \/ Deliver

SpecPurge == InitAuth /\ [][NextPurge]_vars

\* --------------------------------------------------- the racing writes
\* The handlers that read a row and then write it, split at the await between
\* findUnique and update/delete. resolvedAt and wroteAt order the steps of the
\* requests in flight.
LastStamp ==
    CHOOSE n \in 0..(2 * MaxInflight) :
        /\ \A k \in Slots : inflight[k].resolvedAt <= n /\ inflight[k].wroteAt <= n
        /\ n = 0 \/ \E k \in Slots : n \in {inflight[k].resolvedAt, inflight[k].wroteAt}

AdminWriteOps == {"updateProjectStatus", "adminDeleteProject", "updateUserStatus"}
StatusWriteOps == {"updateProject", "updateProjectStatus", "updateUserStatus"}
DeleteOps == {"deleteProject", "adminDeleteProject"}

WriteHandler(op, user, pid, uid, body) ==
    CASE op = "updateProject" -> UpdateProjectHandler(user, pid, body)
      [] op = "updateProjectStatus" -> UpdateProjectStatusHandler(pid, body)
      [] op = "updateUserStatus" -> UpdateUserStatusHandler(uid, body)
      [] op = "deleteProject" -> DeleteProjectHandler(user, pid)
      [] op = "adminDeleteProject" -> AdminDeleteProjectHandler(pid)

\* The row the write is aimed at.
WriteTarget(slot) ==
    IF slot.op = "updateUserStatus" THEN <<"user", slot.uid>> ELSE <<"project", slot.pid>>

TargetStored(slot) ==
    IF slot.op = "updateUserStatus" THEN slot.uid \in DOMAIN users
    ELSE slot.pid \in DOMAIN projects

\* The middleware chain, the body's schema, findUnique and the checks on the
\* row found.
WriteResolve(k, op, tok, pid, uid, body) ==
    LET mw == IF op \in AdminWriteOps THEN AdminGate(tok) ELSE VerifyToken(tok)
        out == Handle(mw, WriteHandler(op, mw.user, pid, uid, body))
        slot == [NoSlot EXCEPT !.op = op, !.body = body, !.pid = pid, !.uid = uid,
                               !.user = mw.user, !.resolvedAt = LastStamp + 1]
    IN /\ inflight[k].pc = "idle"
       /\ inflight' = [inflight EXCEPT ![k] =
              IF out.resp.status = 200 THEN [slot EXCEPT !.pc = "write"]
              ELSE Answered(slot, out.resp)]
       /\ UNCHANGED <<mode, unpurged, client, loggedOut, db, adminTokens, requestCounts, now, req, resp, seen>>

\* A write that gives way when the row was written since this request read it.
WriteCommitFirstWins(k) ==
    LET slot == inflight[k]
        overtaken == \E j \in Slots : /\ j # k
                                      /\ WriteTarget(inflight[j]) = WriteTarget(slot)
                                      /\ inflight[j].wroteAt > slot.resolvedAt
        out == WriteHandler(slot.op, slot.user, slot.pid, slot.uid, slot.body)
    IN /\ slot.pc = "write"
       /\ projects' = IF TargetStored(slot) /\ ~overtaken THEN out.projects ELSE projects
       /\ users' = IF TargetStored(slot) /\ ~overtaken THEN out.users ELSE users
       /\ inflight' = [inflight EXCEPT ![k] =
              [Answered(@, IF TargetStored(slot) THEN out.resp ELSE Fail(PrismaError("P2025")))
                  EXCEPT !.wroteAt = LastStamp + 1]]
       /\ UNCHANGED <<mode, unpurged, client, loggedOut, admins, nextUserId, nextProjectId, adminTokens,
                      requestCounts, now, req, resp, seen>>

\* prisma.<table>.update / delete ({ where: { id } }) and the 200 response, or
\* the P2025 it throws when the row is gone. The write acts on the row as it
\* is now, not as it was read.
WriteCommit(k) ==
    LET slot == inflight[k]
        out == WriteHandler(slot.op, slot.user, slot.pid, slot.uid, slot.body)
    IN /\ slot.pc = "write"
       /\ projects' = IF TargetStored(slot) THEN out.projects ELSE projects
       /\ users' = IF TargetStored(slot) THEN out.users ELSE users
       /\ inflight' = [inflight EXCEPT ![k] =
              [Answered(@, IF TargetStored(slot) THEN out.resp ELSE Fail(PrismaError("P2025")))
                  EXCEPT !.wroteAt = LastStamp + 1]]
       /\ UNCHANGED <<mode, unpurged, client, loggedOut, admins, nextUserId, nextProjectId, adminTokens,
                      requestCounts, now, req, resp, seen>>

\* The project and the account the racing requests are aimed at, and the
\* requesters the routes accept: the project's owner and the admin.
RacedProjects == {1}
OwnerTokens == {GenerateTokens(UserId(1), "USER")}
RaceStatusBodies ==
    {[NoBody EXCEPT !.has = {"status"}, !.status = st] : st \in {"PUBLISHED", "ARCHIVED"}}

\* The owner creates the project before the race starts.
SetUpProject ==
    \/ /\ Idle
       /\ inflight = NoneInFlight
       /\ ~(RacedProjects \subseteq DOMAIN projects)
       /\ \E tok \in OwnerTokens, body \in GateCreateBodies : CreateProject(tok, body)
    \/ Deliver

NextStatusRace ==
    \/ SetUpProject
    \/ \E k \in Slots, tok \in OwnerTokens, pid \in RacedProjects, body \in RaceStatusBodies :
          WriteResolve(k, "updateProject", tok, pid, NoId, body)
    \/ \E k \in Slots, tok \in adminTokens, pid \in RacedProjects, body \in RaceStatusBodies :
          WriteResolve(k, "updateProjectStatus", tok, pid, NoId, body)
    \/ \E k \in Slots, tok \in adminTokens, uid \in ManagedUsers, body \in SessionStatusBodies :
          WriteResolve(k, "updateUserStatus", tok, 0, uid, body)
    \/ \E k \in Slots : WriteCommit(k)
    \/ Collect

SpecStatusRace == Init /\ [][NextStatusRace]_vars

NextDeleteRace ==
    \/ SetUpProject
    \/ \E k \in Slots, tok \in OwnerTokens \cup adminTokens, pid \in ProjectIdParams :
          WriteResolve(k, "deleteProject", tok, pid, NoId, NoBody)
    \/ \E k \in Slots, tok \in adminTokens, pid \in ProjectIdParams :
          WriteResolve(k, "adminDeleteProject", tok, pid, NoId, NoBody)
    \/ \E k \in Slots : WriteCommit(k)
    \/ Collect

SpecDeleteRace == Init /\ [][NextDeleteRace]_vars

\* ------------------------------------------------- accounts in responses
\* Every route that answers with an account: register, the logins, profile,
\* admin access and the admin's user routes.
NextAccounts ==
    \/ Idle /\ \E ip \in ClientIPs, body \in RegisterBodies : Register(ip, body)
    \/ Idle /\ \E ip \in ClientIPs, body \in LoginBodies : Login(ip, body)
    \/ Idle /\ \E ip \in ClientIPs, body \in AdminLoginBodies : AdminLogin(ip, body)
    \/ Idle /\ \E tok \in Tokens : GetProfile(tok)
    \/ Idle /\ \E tok \in Tokens : GetAdminAccess(tok)
    \/ Idle /\ \E tok \in adminTokens, id \in UserIdParams : GetUserById(tok, id)
    \/ Idle /\ \E tok \in adminTokens, id \in UserIdParams, body \in SessionStatusBodies :
                  UpdateUserStatus(tok, id, body)
    \/ Deliver

SpecAccounts == InitAuth /\ [][NextAccounts]_vars

\* ---------------------------------------------------------- the browser
\* services/api.js: the request interceptor sends localStorage's token, the
\* response interceptor answers a 401 with one refresh exchange and one retry.
\* The call modelled is authAPI.getProfile().
ProfileStatus(tok) ==
    LET mw == VerifyToken(tok) IN Handle(mw, GetProfileHandler(mw.user)).resp.status

\* api(config): request interceptor, then the server's answer.
ClientCall ==
    /\ client.call \in {"idle", "done"}
    /\ client.location # "/login"
    /\ client' = [client EXCEPT !.call = "answered", !.retry = FALSE,
                     !.status = ProfileStatus(client.token),
                     !.sends = 1, !.refreshes = 0, !.refreshed = FALSE, !.outcome = "-"]
    /\ UNCHANGED <<mode, unpurged, db, adminTokens, requestCounts, now, req, resp, inflight,
                   seen, loggedOut>>

\* The response interceptor without its _retry flag.
ClientInterceptEvery401 ==
    /\ client.call = "answered"
    /\ client' =
          IF client.status \in 200..299
          THEN [client EXCEPT !.call = "done", !.outcome = "resolved"]
          ELSE IF client.status = 401
          THEN IF client.refreshToken
               THEN [client EXCEPT !.retry = TRUE, !.call = "refreshing"]
               ELSE [client EXCEPT !.retry = TRUE, !.token = NoToken, !.location = "/login",
                                   !.call = "done", !.outcome = "rejected"]
          ELSE [client EXCEPT !.call = "done", !.outcome = "rejected"]
    /\ UNCHANGED <<mode, unpurged, db, adminTokens, requestCounts, now, req, resp, inflight,
                   seen, loggedOut>>

\* The response interceptor, up to its first await or its return.
ClientIntercept ==
    /\ client.call = "answered"
    /\ client' =
          IF client.status \in 200..299
          THEN [client EXCEPT !.call = "done", !.outcome = "resolved"]
          ELSE IF client.status = 401 /\ ~client.retry
          THEN IF client.refreshToken
               THEN [client EXCEPT !.retry = TRUE, !.call = "refreshing"]
               ELSE [client EXCEPT !.retry = TRUE, !.token = NoToken, !.location = "/login",
                                   !.call = "done", !.outcome = "rejected"]
          ELSE [client EXCEPT !.call = "done", !.outcome = "rejected"]
    /\ UNCHANGED <<mode, unpurged, db, adminTokens, requestCounts, now, req, resp, inflight,
                   seen, loggedOut>>

\* axios.post('/auth/refresh', {refreshToken}) and what follows its answer.
NoRefreshRoute == [ok |-> FALSE, accessToken |-> NoToken]
RefreshExchange(answer) ==
    /\ client.call = "refreshing"
    /\ client' =
          IF answer.ok
          THEN [client EXCEPT !.token = answer.accessToken, !.refreshes = @ + 1,
                              !.refreshed = TRUE, !.call = "retrying"]
          ELSE [client EXCEPT !.token = NoToken, !.refreshToken = FALSE,
                              !.location = "/login", !.refreshes = @ + 1,
                              !.call = "done", !.outcome = "rejected"]
    /\ UNCHANGED <<mode, unpurged, db, adminTokens, requestCounts, now, req, resp, inflight,
                   seen, loggedOut>>

\* return api(originalRequest): the same config, _retry set, goes out again.
ClientRetry ==
    /\ client.call = "retrying"
    /\ client' = [client EXCEPT !.call = "answered", !.status = ProfileStatus(client.token),
                                !.sends = @ + 1]
    /\ UNCHANGED <<mode, unpurged, db, adminTokens, requestCounts, now, req, resp, inflight,
                   seen, loggedOut>>

\* What the browser may hold when the page loads: any token, a refresh token
\* or none.
InitClient ==
    /\ mode \in Modes
    /\ users = [id \in UserIdParams |-> RegisteredUser(id[2])]
    /\ admins = [id \in {DefaultAdminId} |-> [DefaultAdmin EXCEPT !.lastLogin = 0]]
    /\ projects = [id \in {} |-> NoProject]
    /\ nextUserId = MaxUsers
    /\ nextProjectId = 0
    /\ adminTokens = {GenerateTokens(DefaultAdminId, "SUPER_ADMIN")}
    /\ requestCounts = [ip \in {} |-> [count |-> 0, resetTime |-> 0]]
    /\ now = 0
    /\ req = NoRequest
    /\ resp = NoResponse
    /\ inflight = NoneInFlight
    /\ seen = [ip \in {} |-> [first |-> 0, logins |-> 0, registers |-> 0]]
    /\ loggedOut = {}
    /\ \E tok \in Tokens, stored \in BOOLEAN :
          client = [NoClient EXCEPT !.token = tok, !.refreshToken = stored]
    /\ unpurged = requestCounts

\* The browser against this repository's server: the auth router has no
\* /refresh route, the exchange is never answered with a token and the call
\* never reaches its retry.
NextClient ==
    \/ ClientCall
    \/ ClientIntercept
    \/ RefreshExchange(NoRefreshRoute)
    \/ Idle /\ \E tok \in adminTokens, id \in UserIdParams : DeleteUser(tok, id)
    \/ Deliver

SpecClient == InitClient /\ [][NextClient]_vars

\* The browser against any server at VITE_API_URL: the exchange may also be
\* answered with an access token, a usable one or not.
RefreshAnswers ==
    {NoRefreshRoute} \cup {[ok |-> TRUE, accessToken |-> tok] : tok \in Tokens \ {NoToken}}

NextBrowser ==
    \/ ClientCall
    \/ ClientIntercept
    \/ \E answer \in RefreshAnswers : RefreshExchange(answer)
    \/ ClientRetry
    \/ Idle /\ \E tok \in adminTokens, id \in UserIdParams : DeleteUser(tok, id)
    \/ Deliver

Browsing == ClientCall \/ ClientIntercept \/ (\E answer \in RefreshAnswers : RefreshExchange(answer))
            \/ ClientRetry

SpecBrowser == InitClient /\ [][NextBrowser]_vars /\ WF_vars(Browsing)

\* =================================================================== claims
PublicPublished(p) == p.isPublic /\ p.status = "PUBLISHED"
Named(target) == target.id # 0
Succeeded == resp.status = 200 \/ resp.status = 201
Blocked == {"SUSPENDED", "INACTIVE"}

AnonymousReadOps == {"getAllProjects", "getPublicProjects", "getProjectById", "getPublicProjectById"}
OptionalAuthOps == {"getAllProjects", "getProjectById"}
AdminOps == {"getAdminStats", "getAllUsers", "getUserById", "updateUserStatus", "deleteUser",
             "adminGetAllProjects", "updateProjectStatus", "adminDeleteProject"}
TokenRequiredOps == {"createProject", "updateProject", "deleteProject", "getProjectsByUser",
                     "getProfile", "logout", "getAdminAccess"} \cup AdminOps

\* C1: every project an anonymous read returns (GET /projects without a usable
\* token, GET /projects/public, GET /projects/:id and /projects/public/:id with
\* no requester) is public and PUBLISHED, whatever the query parameters.
C1_AnonymousReadsPublicPublished ==
    (req.op \in AnonymousReadOps /\ ~req.user.auth) =>
        \A p \in resp.projects : PublicPublished(p)

\* An account that may no longer act sends its token and status=DRAFT to
\* GET /projects and is served the public PUBLISHED project.
C1_Witness ==
    /\ req.op = "getAllProjects" /\ req.tok.kind = "signed" /\ ~req.user.auth
    /\ req.query.status = "DRAFT"
    /\ resp.projects # {}

\* C2: an authenticated requester who is neither owner nor admin never reads a
\* private or unpublished project: GET /projects/:id answers 403 or 404 without
\* content and GET /projects omits it.
C2_NonOwnerReadRefused ==
    (req.user.auth /\ req.user.role \notin AdminRoles) =>
        /\ (/\ req.op = "getProjectById" /\ Named(req.target)
            /\ req.target.userId # req.user.userId /\ ~PublicPublished(req.target))
              => (resp.status \in {403, 404} /\ resp.projects = {})
        /\ req.op = "getAllProjects" =>
              \A p \in resp.projects : p.userId = req.user.userId \/ PublicPublished(p)

C4_NonOwnerWriteForbidden ==
    (/\ req.op \in {"updateProject", "deleteProject"}
     /\ req.user.auth /\ req.user.role = "USER"
     /\ Named(req.target) /\ req.target.userId # req.user.userId
     /\ req.op = "updateProject" => UpdateProjectSchemaValid(req.body))
        => (resp.status = 403 /\ FindProject(req.pid) = req.target)

\* C5: for an ACTIVE admin every operation on an existing project succeeds:
\* read by id, presence in the GET /projects list, update and delete.
C5_ActiveAdminCrudSucceeds ==
    (req.user.auth /\ req.user.role \in AdminRoles /\ req.tokStatus = "ACTIVE") =>
        /\ (req.op = "getProjectById" /\ Named(req.target))
              => (resp.status = 200 /\ resp.projects = {req.target})
        /\ (req.op = "getAllProjects" /\ req.query = NoQuery) => AllProjects \subseteq resp.projects
        /\ (req.op = "updateProject" /\ Named(req.target) /\ UpdateProjectSchemaValid(req.body))
              => resp.status = 200
        /\ (req.op = "deleteProject" /\ Named(req.target))
              => (resp.status = 200 /\ req.pid \notin DOMAIN projects)

\* C6: a request with a valid admin token whose account is not ACTIVE is denied
\* every admin and project operation that needs a token.
C6_NonActiveAdminDenied ==
    (/\ req.op \in TokenRequiredOps
     /\ req.tok.kind = "signed" /\ req.tok.role \in AdminRoles
     /\ req.tokStatus \in Statuses \ {"ACTIVE"})
        => ~Succeeded

\* C7: the authenticated owner of a project reads it by id, updates it (valid
\* body) and deletes it successfully whatever its visibility and status, and
\* the owner's unfiltered GET /projects page holds their projects.
C7_OwnerCrudSucceeds ==
    /\ (req.user.auth /\ Named(req.target) /\ req.target.userId = req.user.userId) =>
          /\ req.op = "getProjectById" => (resp.status = 200 /\ resp.projects = {req.target})
          /\ (req.op = "updateProject" /\ UpdateProjectSchemaValid(req.body)) =>
                /\ resp.status = 200
                /\ req.pid \in DOMAIN projects
                /\ projects[req.pid] = UpdateProjectData(req.body, projects[req.pid])
                /\ projects[req.pid].userId = req.target.userId
          /\ req.op = "deleteProject" => (resp.status = 200 /\ req.pid \notin DOMAIN projects)
    /\ (req.user.auth /\ req.op = "getAllProjects" /\ req.query = NoQuery) =>
          {p \in AllProjects : p.userId = req.user.userId} \subseteq resp.projects

\* The owner deletes their private project that an admin put UNDER_REVIEW.
C7_Witness ==
    /\ req.op = "deleteProject" /\ req.user.auth /\ req.user.role = "USER"
    /\ req.target.userId = req.user.userId
    /\ ~req.target.isPublic /\ req.target.status = "UNDER_REVIEW"
    /\ resp.status = 200

\* C8: an /admin operation without a valid token is answered 401, with a valid
\* USER token 403, only an admin role is served, and a refused request changes
\* no user or project row.
C8_AdminRoutesGated ==
    [][req'.op \in AdminOps =>
          /\ req'.tok.kind # "signed" => (resp'.status = 401 /\ db' = db)
          /\ (/\ req'.tok.kind = "signed" /\ req'.tok.role = "USER"
              /\ req'.tokStatus \in {"ACTIVE", "PENDING_VERIFICATION"})
                => (resp'.status = 403 /\ db' = db)
          /\ resp'.status = 200 => req'.user.role \in AdminRoles]_vars

\* C9: an error raised with a taxonomy status (401, 403, 404, 409) reaches the
\* client with that status, in development and in production.
C9_TaxonomyStatusReachesClient ==
    resp.raised \in {401, 403, 404, 409} => resp.status = resp.raised

\* C10: registering an email that already has an account is answered 409 and
\* leaves the users table as it was.
C10_DuplicateRegisterConflict ==
    [][(/\ req'.op = "register" /\ req'.uid # NoId
        /\ RegisterSchemaValid(req'.body) /\ resp'.status # 429)
          => (resp'.status = 409 /\ users' = users)]_vars

\* Two register requests that both passed the existence check for one email.
RacedPair(j, k) ==
    /\ j # k
    /\ inflight[j].pc = "done" /\ inflight[k].pc = "done"
    /\ inflight[j].body.email = inflight[k].body.email
    /\ inflight[j].resp.raised # 409 /\ inflight[k].resp.raised # 409
    /\ inflight[j].resp.status \notin {400, 429} /\ inflight[k].resp.status \notin {400, 429}

\* C11: no two user rows share an email; when two register requests for one
\* new email both pass the existence check before either creates the row, one
\* account is created, one request is answered 201 and the other 409.
C11_RegisterRaceOneWinner ==
    /\ \A a, b \in DOMAIN users : users[a].email = users[b].email => a = b
    /\ \A j, k \in Slots : RacedPair(j, k) =>
          /\ Cardinality(UserByEmail(inflight[j].body.email)) = 1
          /\ {inflight[j].resp.status, inflight[k].resp.status} = {201, 409}

\* C12: DELETE /projects/:id (and the admin DELETE) by an authorized requester
\* on an id that an earlier DELETE removed is answered 404, never 200, and
\* changes no stored project.
C12_RepeatedDeleteNotFound ==
    [][(/\ req'.op \in {"deleteProject", "adminDeleteProject"}
        /\ req'.user.auth
        /\ req'.op = "adminDeleteProject" => req'.user.role \in AdminRoles
        /\ req'.pid \in 1..nextProjectId /\ req'.pid \notin DOMAIN projects)
          => (resp'.status = 404 /\ projects' = projects)]_vars

LoginOps == {"login", "adminLogin"}
RateLimitedOps == {"register", "login", "adminLogin"}

\* C13: a login attempt (user or admin) from an IP that already made 3 login
\* attempts in its current window is answered 429 whatever its credentials,
\* issues no token and leaves lastLogin and every account as they were.
C13_FourthLoginThrottled ==
    [][(/\ req'.op \in LoginOps
        /\ ~NewWindow(req'.ip)
        /\ seen[req'.ip].logins >= LoginMaxRequests)
          => /\ resp'.status = 429
             /\ resp'.tokens = NoToken /\ resp'.account = NoAccountInfo
             /\ users' = users /\ admins' = admins /\ adminTokens' = adminTokens]_vars

\* The fourth login of a window, sent at the window's last instant with the
\* right password of an account that may log in, is throttled.
C13_Witness ==
    /\ req.op = "login" /\ resp.status = 429
    /\ req.uid \in DOMAIN users
    /\ Compare(req.body.password, users[req.uid].password)
    /\ users[req.uid].status \notin {"SUSPENDED", "INACTIVE"}
    /\ seen[req.ip].logins > LoginMaxRequests
    /\ now = seen[req.ip].first + WindowMs

\* C14: the limiter's window is fixed to its first request: a request coming
\* more than WindowMs after it is admitted and opens a new window with count 1,
\* and a request answered 429 changes neither the counter nor the reset time.
C14_FixedWindow ==
    [][req'.op \in RateLimitedOps =>
          /\ NewWindow(req'.ip) =>
                /\ resp'.status # 429
                /\ requestCounts'[req'.ip] = [count |-> 1, resetTime |-> now + WindowMs]
          /\ resp'.status = 429 => requestCounts' = requestCounts
          /\ requestCounts'[req'.ip].resetTime = seen'[req'.ip].first + WindowMs]_vars

\* A login that opens a new window after the window of the registration ended.
C14_Witness ==
    /\ req.op = "login" /\ req.uid \in DOMAIN users
    /\ now > WindowMs
    /\ requestCounts[req.ip] = [count |-> 1, resetTime |-> now + WindowMs]
    /\ resp.status # 429

ListOps == {"getAllProjects", "getPublicProjects", "getProjectsByUser", "getAllUsers",
            "adminGetAllProjects"}
MaxLimit == 100

\* C15: on every list route and for every requested limit, the page size the
\* handler uses and reports lies in 1..100 and the page holds no more rows.
C15_LimitClamped ==
    (req.op \in ListOps /\ resp.status = 200) =>
        /\ resp.limit \in 1..MaxLimit
        /\ Cardinality(resp.projects) <= resp.limit

\* C16: every project GET /projects returns to an authenticated non-admin is
\* public and PUBLISHED or the requester's own, and also meets each of the
\* search, category and status filters that were supplied.
C16_VisibilityAndFilters ==
    (req.op = "getAllProjects" /\ req.user.auth /\ req.user.role \notin AdminRoles) =>
        \A p \in resp.projects :
            /\ PublicPublished(p) \/ p.userId = req.user.userId
            /\ req.query.status # "" => p.status = req.query.status
            /\ req.query.category # "" => p.category = req.query.category
            /\ req.query.search # NoText => ContainsInsensitive(p.title, req.query.search)

\* status=DRAFT asked by a user while somebody else's DRAFT project exists:
\* the filter matches it, the visibility rule keeps it out.
C16_Witness ==
    /\ req.op = "getAllProjects" /\ req.user.auth /\ req.user.role = "USER"
    /\ req.query.status = "DRAFT"
    /\ \E p \in AllProjects :
          p.status = "DRAFT" /\ p.userId # req.user.userId /\ p \notin resp.projects

\* C17: POST /auth/login answers 200 with tokens only for an existing email,
\* the matching password and a status other than SUSPENDED and INACTIVE; an
\* unknown email or a wrong password is answered 401, right credentials of a
\* SUSPENDED or INACTIVE account 403; every answer but 200 carries no token
\* and leaves lastLogin as it was.
C17_LoginOutcomes ==
    [][(req'.op = "login" /\ LoginSchemaValid(req'.body) /\ resp'.status # 429) =>
          LET found == UserByEmail(req'.body.email)
              matches == found # {} /\ Compare(req'.body.password, users[req'.uid].password)
              blocked == found # {} /\ users[req'.uid].status \in Blocked
          IN /\ resp'.status = 200 =>
                   (matches /\ ~blocked /\ resp'.tokens = GenerateTokens(req'.uid, "USER"))
             /\ ~matches => resp'.status = 401
             /\ (matches /\ blocked) => resp'.status = 403
             /\ (matches /\ ~blocked) => resp'.status = 200
             /\ resp'.status # 200 => (resp'.tokens = NoToken /\ users' = users)]_vars

\* The account a token names exists and its status lets verifyToken pass.
TokenAccountAllowed(tok) ==
    IF tok.role \in AdminRoles
    THEN tok.userId \in DOMAIN admins
         /\ admins[tok.userId].status \in {"ACTIVE", "PENDING_VERIFICATION"}
    ELSE tok.userId \in DOMAIN users
         /\ users[tok.userId].status \in {"ACTIVE", "PENDING_VERIFICATION"}

\* C18: logout changes no server state, and a token that was logged out is
\* still accepted by every token-required route while its account exists with
\* an allowed status: the request is authenticated as the token's account and
\* is never refused as unauthenticated.
C18_LogoutRevokesNothing ==
    [][/\ req'.op = "logout" =>
             /\ db' = db /\ adminTokens' = adminTokens /\ requestCounts' = requestCounts
             /\ TokenAccountAllowed(req'.tok) => resp'.status = 200
       /\ (/\ req'.op \in TokenRequiredOps
           /\ req'.tok \in loggedOut
           /\ TokenAccountAllowed(req'.tok))
             => /\ resp'.raised # 401 /\ resp'.status # 401
                /\ \/ req'.user = ReqUser(req'.tok.userId, req'.tok.role)
                   \/ /\ req'.op \in AdminOps \cup {"getAdminAccess"}
                      /\ req'.tok.role = "USER" /\ resp'.raised = 403]_vars

\* A user logs out and then deletes their project with the same token.
C18_Witness ==
    /\ req.op = "deleteProject" /\ req.tok \in loggedOut /\ req.tok.role = "USER"
    /\ Named(req.target) /\ resp.status = 200
    /\ req.pid \notin DOMAIN projects

\* C19: a project's userId never changes after creation, whatever PUT
\* /projects/:id and PATCH /admin/projects/:id/status are sent, and a new
\* project's userId is the id of the requester who created it.
C19_OwnerImmutable ==
    [][/\ \A id \in DOMAIN projects \cap DOMAIN projects' :
             projects'[id].userId = projects[id].userId
       /\ \A id \in DOMAIN projects' \ DOMAIN projects :
             /\ req'.op = "createProject"
             /\ projects'[id].userId = req'.tok.userId
             /\ req'.user.userId = req'.tok.userId]_vars

\* An update whose body names another owner succeeds and the owner stays.
C19_Witness ==
    /\ req.op = "updateProject" /\ resp.status = 200
    /\ "userId" \in req.body.has /\ req.body.userId # req.target.userId
    /\ projects[req.pid].userId = req.target.userId
    /\ projects[req.pid].status # req.target.status

\* C20: GET /auth/profile with any token verifyToken accepts - a user's or an
\* admin's - is answered 200 with the account the token identifies.
C20_ProfileForEveryAcceptedToken ==
    (req.op = "getProfile" /\ req.user.auth) =>
        (resp.status = 200 /\ resp.account.id = req.tok.userId)

\* C21: when the api call is answered 401 and the browser holds a refresh
\* token, the refresh exchange succeeds and the call is retried with the new
\* access token.
C21_RefreshMintsAccessToken ==
    (client.call = "done" /\ client.refreshes = 1) =>
        (client.refreshed /\ client.sends = 2)

\* C30: the browser's handling of a 401 terminates. One api call makes at
\* most one refresh exchange and goes out at most twice; a 401 on the retried
\* request is handed to the caller without another exchange; when the exchange
\* fails or no refresh token is stored, the stored access token is removed
\* and the browser is sent to /login; every answered call reaches its end.
C30_ClientUnauthorizedTerminates ==
    /\ [](/\ client.refreshes <= 1
          /\ client.sends <= 2
          /\ (client.call = "done" /\ client.sends = 2 /\ client.status = 401) =>
                (client.outcome = "rejected" /\ client.refreshes = 1)
          /\ (client.call = "done" /\ client.retry /\ ~client.refreshed) =>
                (client.token = NoToken /\ client.location = "/login"
                   /\ client.outcome = "rejected"))
    /\ (client.call = "answered" ~> client.call = "done")

C30_Witness ==
    /\ client.call = "done"
    /\ client.sends = 2
    /\ client.status = 401
    /\ client.refreshes = 1

\* C22: no response carries a password or a password hash, and every stored
\* password, of a user or an admin, is a bcrypt hash, never the text sent.
IsBcryptHash(stored) == Len(stored) = 2 /\ stored[1] = "$2a$"

UnknownErrors ==
    {[name |-> n, statusCode |-> sc, message |-> "connect ECONNREFUSED", isOperational |-> FALSE,
      code |-> "-"] : n \in {"Error", "TypeError"}, sc \in {0, 400, 404, 500}}

GenericReply == Reply(500, "Something went wrong!", FALSE)

C23_UnknownErrorHiddenInProduction ==
    /\ \A e \in UnknownErrors : GlobalErrorHandler(e, "production") = GenericReply
    /\ (mode = "production" /\ resp.raised # 0) =>
          (/\ resp.status = GenericReply.status
           /\ resp.message = GenericReply.message
           /\ ~resp.detailed)

C23_Witness ==
    /\ mode = "production"
    /\ resp.raised = 404
    /\ resp.status = 500
    /\ resp.message = "Something went wrong!"

\* C24: PUT and DELETE /projects/:id of an authenticated requester check in
\* the order body, project, access: an update with an invalid body is answered
\* 400 whatever the id; an update or delete of an id without a project is
\* answered 404 whoever asks; 403 is answered only for an existing project;
\* the projects table changes only when body, project and access all pass.
C24_WriteChecksInOrder ==
    [][(req'.op \in {"updateProject", "deleteProject"} /\ req'.user.auth) =>
          LET valid == req'.op = "deleteProject" \/ UpdateProjectSchemaValid(req'.body)
              exists == Named(req'.target)
              allowed == req'.target.userId = req'.user.userId \/ req'.user.role \in AdminRoles
          IN /\ ~valid => (resp'.status = 400 /\ projects' = projects)
             /\ (valid /\ ~exists) => (resp'.status = 404 /\ projects' = projects)
             /\ resp'.status = 403 => (valid /\ exists /\ ~allowed)
             /\ projects' # projects => (valid /\ exists /\ allowed /\ resp'.status = 200)]_vars

\* Two requests whose reads both came before either's write, aimed at one row.
Racing(j, k) ==
    /\ j # k
    /\ inflight[j].pc = "done" /\ inflight[k].pc = "done"
    /\ inflight[j].wroteAt > 0 /\ inflight[k].wroteAt > 0
    /\ WriteTarget(inflight[j]) = WriteTarget(inflight[k])
    /\ inflight[j].resolvedAt < inflight[k].wroteAt
    /\ inflight[k].resolvedAt < inflight[j].wroteAt

StoredStatus(slot) ==
    IF slot.op = "updateUserStatus" THEN users[slot.uid].status ELSE projects[slot.pid].status

LastWriter(k) ==
    \A i \in Slots : WriteTarget(inflight[i]) = WriteTarget(inflight[k])
                         => inflight[i].wroteAt <= inflight[k].wroteAt

\* C25: two status updates racing on one project or one user are both
\* answered 200, and the stored status is the one asked for by the write
\* that reached the table last.
C25_RacingStatusLastWriteWins ==
    \A j, k \in Slots :
        (/\ Racing(j, k)
         /\ inflight[j].op \in StatusWriteOps /\ inflight[k].op \in StatusWriteOps
         /\ LastWriter(k))
           => /\ inflight[j].resp.status = 200
              /\ inflight[k].resp.status = 200
              /\ TargetStored(inflight[k])
              /\ StoredStatus(inflight[k]) = inflight[k].body.status

C25_Witness ==
    \E j, k \in Slots :
        /\ Racing(j, k)
        /\ inflight[j].op \in StatusWriteOps /\ inflight[k].op \in StatusWriteOps
        /\ inflight[j].wroteAt < inflight[k].wroteAt
        /\ inflight[j].body.status # inflight[k].body.status
        /\ StoredStatus(inflight[k]) = inflight[k].body.status

\* C26: of two DELETE /projects/:id requests that both found the project
\* before either deleted it, one is answered 200 and the other 404, in
\* development and in production.
C26_RacingDeletesOneNotFound ==
    \A j, k \in Slots :
        (/\ Racing(j, k)
         /\ inflight[j].op = "deleteProject" /\ inflight[k].op = "deleteProject")
           => {inflight[j].resp.status, inflight[k].resp.status} = {200, 404}

\* C27: verifyToken decides on the account as it is stored now. A
\* token-required request with a user's token is answered 403 while the
\* account is SUSPENDED or INACTIVE, is accepted when the account is ACTIVE
\* (again), and is answered 401 once the account is deleted.
C27_TokenFollowsStoredAccount ==
    (req.op \in TokenRequiredOps /\ req.tok.kind = "signed" /\ req.tok.role = "USER") =>
        /\ req.tokStatus \in Blocked => (resp.status = 403 /\ ~req.user.auth)
        /\ req.tokStatus = "ACTIVE" => (VerifyToken(req.tok).kind = "next" /\ resp.status # 401)
        /\ req.tokStatus = NoAccount.status => (resp.status = 401 /\ ~req.user.auth)

\* C28: the login limiter and the register limiter count apart. In a window
\* of an IP a login attempt is admitted while fewer than 3 login attempts
\* came before it, however many registrations were made, and a registration
\* is admitted while fewer than 5 registrations came before it, however many
\* logins were attempted.
C28_QuotasPerRouteGroup ==
    [][(req'.op \in RateLimitedOps /\ ~NewWindow(req'.ip)) =>
          /\ (req'.op \in LoginOps /\ seen[req'.ip].logins < LoginMaxRequests)
                => resp'.status # 429
          /\ (req'.op = "register" /\ seen[req'.ip].registers < AuthMaxRequests)
                => resp'.status # 429]_vars

\* C29: the purge of stale entries changes no admission decision. Next to a
\* limiter whose map is never purged, the limiter admits and refuses the same
\* requests, for either quota, at every moment; and each request is answered
\* 429 exactly when the unpurged limiter refuses it.
C29_PurgeKeepsDecisions ==
    /\ [](\A ip \in PurgeIPs, maxRequests \in {LoginMaxRequests, AuthMaxRequests} :
             RateLimitAdmits(maxRequests, ip) <=> AdmitsOn(unpurged, maxRequests, ip))
    /\ [][req'.op \in RateLimitedOps =>
             (resp'.status = 429 <=>
                ~AdmitsOn(unpurged,
                          IF req'.op \in LoginOps THEN LoginMaxRequests ELSE AuthMaxRequests,
                          req'.ip))]_vars

\* The purge took the entry of an IP that had used up its login quota and
\* left the entry of another.
C29_Witness ==
    \E ip \in DOMAIN unpurged :
        /\ ip \notin DOMAIN requestCounts
        /\ unpurged[ip].count >= LoginMaxRequests
        /\ DOMAIN requestCounts # {}

====
